---- MODULE Spec2Model ----
(***************************************************************************)
(* A model of src/src/console.py: the flag registry of a Command, the      *)
(* tokenizing parser _Console_Parser.parse_line, and the startup phase of  *)
(* Console (constructor, terminal flag registration, one-shot processing   *)
(* of the startup line), and the console loop Console_Program.run started   *)
(* by Console.console_start.                                               *)
(*                                                                         *)
(* Python values are represented as follows.                               *)
(*   str       a sequence of one-character strings, <<"-","-","a">>        *)
(*   None      the one-element sequence <<"None">> (no str equals it)      *)
(*   callable  <<"callable", name>>                                        *)
(*   flag input values (None, str, int, float) are records tagged by type  *)
(*   list      a sequence                                                  *)
(*   dict      a record                                                    *)
(***************************************************************************)
EXTENDS Integers, Sequences, FiniteSets, TLC

VARIABLES
    \* ---- one call of _Console_Parser.parse_line -------------------------
    command,          \* the Command whose available_flags the call reads
    input,            \* the call's input argument: a list of tokens
    is_command,       \* the call's is_command argument
    inputlist,        \* local: the tokens being scanned
    index,            \* local: 0-based scan position
    active_flags,     \* parser.active_flags
    additional_args,  \* parser.additional_args
    raised,           \* the exception parse_line raised, or NoException
    ppc,              \* position of the call: idle, scan, returned, raised
    \* ---- the Console and its startup phase ------------------------------
    argv,                              \* sys.argv
    phase,                             \* new, ready, exited, failed
    terminal,                          \* Console.terminal (a Command)
    terminal_active_flags,
    terminal_additional_args,
    _processed_flag_options,
    _DI_settings,
    display_information_settings,      \* the settings Display_Information holds
    _available_commands,
    current_command_name,
    current_command_active_flags,
    current_command_additional_args,
    current_flag_name,
    current_flag_input,
    calls,                             \* handlers invoked so far, in order
    last_call,                         \* the host's last call and its outcome
    ncalls,                            \* host calls made after construction
    \* ---- the console loop ----------------------------------------------
    loops,                             \* the Console_Program objects and their run
    caller,                            \* the caller's context: ready, blocked in a loop, failed
    shutdown,                          \* what the caller's console_start returned
    cancel_requested,                  \* the caller has executed shutdown.set()
    nread,                             \* lines read by the loops so far
    console_command_name,              \* Console.command_name, set by run
    console_command_active_flags,      \* Console.command_active_flags
    console_command_additional_args    \* Console.command_additional_args

parser_vars == <<command, input, is_command, inputlist, index, active_flags,
                 additional_args, raised, ppc>>

console_vars == <<argv, phase, terminal, terminal_active_flags,
                  terminal_additional_args, _processed_flag_options,
                  _DI_settings, display_information_settings,
                  _available_commands, current_command_name,
                  current_command_active_flags,
                  current_command_additional_args, current_flag_name,
                  current_flag_input, calls, last_call, ncalls>>

loop_vars == <<loops, caller, shutdown, cancel_requested, nread,
               console_command_name, console_command_active_flags,
               console_command_additional_args>>

vars == <<parser_vars, console_vars, loop_vars>>

---------------------------------------------------------------------------
(* Constants of console.py *)

DI_IGNORE == 0
DI_STDOUT == 1
DI_LOG == 2
DI_STDOUT_LOG == 3

FLAG_INPUT_IGNORE == 0
FLAG_INPUT_STR == 1
FLAG_INPUT_INT == 2
FLAG_INPUT_FLOAT == 3

None == <<"None">>

\* An attribute that no assignment has created yet
NoAttribute == [type |-> "NoAttribute"]

Callable(name) == <<"callable", name>>

Digits == {"0", "1", "2", "3", "4", "5", "6", "7", "8", "9"}

Letters == {"a", "b", "c", "d", "e", "f", "g", "h", "i", "j", "k", "l", "m",
            "n", "o", "p", "q", "r", "s", "t", "u", "v", "w", "x", "y", "z",
            "D", "L", "?", "="}

Chars == Digits \cup Letters \cup {"-", "+", "."}

\* isinstance(x, str)
IsStr(x) == \A i \in 1..Len(x) : x[i] \in Chars

\* hasattr(x, '__call__')
IsCallable(x) == Len(x) = 2 /\ x[1] = "callable"

NoException == [type |-> "NoException"]

---------------------------------------------------------------------------
(* int(s) and float(s) on a token.  No token of the model holds            *)
(* whitespace, an exponent or one of the spellings inf / nan, so the       *)
(* numerals are an optional sign, digits and, for float, at most one       *)
(* point.  A float is kept as the exact fraction num/den in lowest terms.  *)

DigitValue(c) ==
    CASE c = "0" -> 0 [] c = "1" -> 1 [] c = "2" -> 2 [] c = "3" -> 3
      [] c = "4" -> 4 [] c = "5" -> 5 [] c = "6" -> 6 [] c = "7" -> 7
      [] c = "8" -> 8 [] c = "9" -> 9

RECURSIVE DigitsValue(_)
DigitsValue(s) ==
    IF s = <<>> THEN 0
    ELSE DigitsValue(SubSeq(s, 1, Len(s) - 1)) * 10 + DigitValue(s[Len(s)])

RECURSIVE Pow10(_)
Pow10(k) == IF k = 0 THEN 1 ELSE 10 * Pow10(k - 1)

RECURSIVE GCD(_, _)
GCD(a, b) == IF b = 0 THEN a ELSE GCD(b, a % b)

Unsigned(s) == IF s # <<>> /\ s[1] \in {"+", "-"} THEN Tail(s) ELSE s

Sign(s) == IF s # <<>> /\ s[1] = "-" THEN -1 ELSE 1

IsDigitChar(c) == c \in Digits

\* int(s): the value, or ValueError
PyInt(s) ==
    LET body == Unsigned(s) IN
    IF body # <<>> /\ \A i \in 1..Len(body) : IsDigitChar(body[i])
    THEN [ok |-> TRUE, value |-> [type |-> "int", value |-> Sign(s) * DigitsValue(body)]]
    ELSE [ok |-> FALSE, value |-> "ValueError"]

\* float(s): the value, or ValueError
PyFloat(s) ==
    LET body == Unsigned(s)
        points == {i \in 1..Len(body) : body[i] = "."}
        digits == SelectSeq(body, IsDigitChar)
    IN
    IF /\ Cardinality(points) <= 1
       /\ digits # <<>>
       /\ Len(digits) + Cardinality(points) = Len(body)
    THEN LET after == IF points = {} THEN 0
                      ELSE Len(body) - (CHOOSE i \in points : TRUE)
             n == DigitsValue(digits)
             d == Pow10(after)
             g == GCD(n, d)
         IN [ok |-> TRUE,
             value |-> [type |-> "float", num |-> Sign(s) * (n \div g), den |-> d \div g]]
    ELSE [ok |-> FALSE, value |-> "ValueError"]

NoneInput == [type |-> "NoneType"]

StrInput(s) == [type |-> "str", value |-> s]

---------------------------------------------------------------------------
(* Command: the flag registry *)

\* s[:n]
Prefix(s, n) == SubSeq(s, 1, IF Len(s) < n THEN Len(s) ELSE n)

TypeError(msg) == [type |-> "TypeError", message |-> msg]

\* add_flag putting the markers in front of the names it is given, whether
\* they carry them or not
add_flag_always_marking(available_flags, longf, shortf, description, input_kind, method) ==
    LET unchanged(exc) == [raised |-> exc, available_flags |-> available_flags] IN
    IF method # None /\ ~IsCallable(method)
    THEN unchanged(TypeError("'method' argument is not a callable"))
    ELSE IF description # None /\ ~IsStr(description)
    THEN unchanged(TypeError("'name' argument is not a string"))
    ELSE IF shortf # None /\ ~IsStr(shortf)
    THEN unchanged(TypeError("'shortf' argument is not a string"))
    ELSE IF ~IsStr(longf)
    THEN unchanged(TypeError("'longf' argument is not a string"))
    ELSE
    LET shortf2 == IF shortf # None THEN <<"-">> \o shortf ELSE shortf IN
    IF shortf2 # None /\ Len(shortf2) # 2
    THEN unchanged(TypeError("'shortf' argument must be in form 'x' or '-x'"))
    ELSE [raised |-> NoException,
          available_flags |->
             Append(available_flags,
                    [longf |-> <<"-", "-">> \o longf, shortf |-> shortf2,
                     description |-> description, input |-> input_kind,
                     method |-> method])]

\* Command.add_flag on the registry available_flags: the exception raised
\* (or NoException) and the registry afterwards.
add_flag(available_flags, longf, shortf, description, input_kind, method) ==
    LET unchanged(exc) == [raised |-> exc, available_flags |-> available_flags] IN
    IF method # None /\ ~IsCallable(method)
    THEN unchanged(TypeError("'method' argument is not a callable"))
    ELSE IF description # None /\ ~IsStr(description)
    THEN unchanged(TypeError("'name' argument is not a string"))
    ELSE IF shortf # None /\ ~IsStr(shortf)
    THEN unchanged(TypeError("'shortf' argument is not a string"))
    ELSE IF ~IsStr(longf)
    THEN unchanged(TypeError("'longf' argument is not a string"))
    ELSE
    LET longf2 == IF Prefix(longf, 2) # <<"-", "-">>
                  THEN <<"-", "-">> \o longf ELSE longf
    IN
    IF shortf # None /\ shortf = <<>>
    THEN unchanged([type |-> "IndexError", message |-> "string index out of range"])
    ELSE
    LET shortf2 == IF shortf # None /\ shortf[1] # "-"
                   THEN <<"-">> \o shortf ELSE shortf
    IN
    IF shortf2 # None /\ Len(shortf2) # 2
    THEN unchanged(TypeError("'shortf' argument must be in form 'x' or '-x'"))
    ELSE
    LET flag_dict == [longf |-> longf2, shortf |-> shortf2,
                      description |-> description, input |-> input_kind,
                      method |-> method]
    IN [raised |-> NoException,
        available_flags |-> Append(available_flags, flag_dict)]

_command_help == Callable("_command_help")

\* Command.__init__: the exception raised (or NoException) and the Command.
\* The usage argument is accepted and not stored: self.usage is set to "".
Command(command_name, method, description, usage) ==
    IF ~IsCallable(method)
    THEN [raised |-> TypeError("'method' argument is not a callable")]
    ELSE IF ~IsStr(description)
    THEN [raised |-> TypeError("'description' argument is not of type string")]
    ELSE
    [raised |-> NoException,
     command |->
        [command_name |-> command_name,
         method |-> method,
         description |-> description,
         usage |-> <<>>,
         available_flags |->
            add_flag(<<>>, <<"h", "e", "l", "p">>, <<"h">>,
                     <<"d">>, FLAG_INPUT_IGNORE, _command_help).available_flags]]

---------------------------------------------------------------------------
(* _Console_Parser *)

\* sys.argv[0], read by _Console_Parser.__init__
program_name == <<"p">>

\* _precheck_input on a list
_precheck_input(inp) ==
    IF inp[1] = program_name THEN Tail(inp) ELSE inp

\* FindFlag comparing the token with the long names only
FindFlagLongOnly(available_flags, token) ==
    LET hits == {k \in 1..Len(available_flags) :
                    token = available_flags[k].longf}
    IN IF hits = {} THEN 0
       ELSE CHOOSE k \in hits : \A j \in hits : k <= j

\* FindFlag going through the whole registry and keeping the last match
FindFlagLastMatch(available_flags, token) ==
    LET hits == {k \in 1..Len(available_flags) :
                    \/ token = available_flags[k].longf
                    \/ token = available_flags[k].shortf}
    IN IF hits = {} THEN 0
       ELSE CHOOSE k \in hits : \A j \in hits : k >= j

\* The for loop over command.available_flags: the position of the first flag
\* whose longf or shortf equals the token, 0 when found_active_flag stays False.
FindFlag(available_flags, token) ==
    LET hits == {k \in 1..Len(available_flags) :
                    \/ token = available_flags[k].longf
                    \/ token = available_flags[k].shortf}
    IN IF hits = {} THEN 0
       ELSE CHOOSE k \in hits : \A j \in hits : k <= j

InputError(kind, token, flag_name, expected) ==
    [type |-> "InputError", kind |-> kind, token |-> token,
     flag |-> flag_name, expected |-> expected]

TypeName(input_kind) ==
    CASE input_kind = FLAG_INPUT_STR -> "str"
      [] input_kind = FLAG_INPUT_INT -> "int"
      [] input_kind = FLAG_INPUT_FLOAT -> "float"
      [] OTHER -> "string"

\* Coerce keeping the token of an int flag as it was typed
CoerceIntUnconverted(input_kind, token) ==
    CASE input_kind = FLAG_INPUT_STR -> [ok |-> TRUE, value |-> StrInput(token)]
      [] input_kind = FLAG_INPUT_INT -> [ok |-> TRUE, value |-> StrInput(token)]
      [] input_kind = FLAG_INPUT_FLOAT -> PyFloat(token)
      [] OTHER -> [ok |-> TRUE, value |-> NoneInput]

\* The conversion of the token that follows a flag: str(), int() or float(),
\* a ValueError becoming False in ok.
Coerce(input_kind, token) ==
    CASE input_kind = FLAG_INPUT_STR -> [ok |-> TRUE, value |-> StrInput(token)]
      [] input_kind = FLAG_INPUT_INT -> PyInt(token)
      [] input_kind = FLAG_INPUT_FLOAT -> PyFloat(token)
      [] OTHER -> [ok |-> TRUE, value |-> NoneInput]

\* list.remove(x): drops the first element equal to x
ListRemove(list, x) ==
    LET first == CHOOSE k \in 1..Len(list) :
                    list[k] = x /\ \A j \in 1..(k - 1) : list[j] # x
    IN SubSeq(list, 1, first - 1) \o SubSeq(list, first + 1, Len(list))

\* RecordActivation without the removal of lines 1315-1318
RecordActivationAppendOnly(active, flag_dict) == Append(active, flag_dict)

\* RecordActivation overwriting the earlier activation where it stands
RecordActivationInPlace(active, flag_dict) ==
    LET same == {k \in 1..Len(active) : active[k].longf = flag_dict.longf} IN
    IF same = {} THEN Append(active, flag_dict)
    ELSE [k \in 1..Len(active) |->
            IF k \in same THEN flag_dict ELSE active[k]]

\* Lines 1312-1319: an activation of the same longf already in the list is
\* removed, then the new one is appended.
RecordActivation(active, flag_dict) ==
    LET same == {k \in 1..Len(active) : active[k].longf = flag_dict.longf} IN
    IF same = {} THEN Append(active, flag_dict)
    ELSE LET added_dict == active[CHOOSE k \in same : \A j \in same : k <= j]
         IN Append(ListRemove(active, added_dict), flag_dict)

\* Activation recording the token typed in place of the flag's long name
ActivationUnderToken(map, flag_name, input_value) ==
    [longf |-> flag_name, description |-> map.description,
     input |-> input_value, method |-> map.method]

\* flag_dict of lines 1312-1313
Activation(map, flag_name, input_value) ==
    [longf |-> map.longf, description |-> map.description,
     input |-> input_value, method |-> map.method]

\* IndexAfterFlag without the index += 1 of line 1296
IndexAfterFlagNoSkip(i, takes_input) == i + 1

\* IndexAfterFlag stepping over the token behind every flag
IndexAfterFlagSkipAlways(i, takes_input) == i + 2

\* The index after an iteration that recorded a flag: index += 1 at line 1296
\* when the flag took input, and the closing index += 1 at line 1322.
IndexAfterFlag(i, takes_input) == IF takes_input THEN i + 2 ELSE i + 1

\* One iteration of the while loop of parse_line on the parser state P
\* (inputlist, index, active_flags, additional_args, raised).
LoopBody(available_flags, P) ==
    LET list_length == Len(P.inputlist)
        token == P.inputlist[P.index + 1]
        found == FindFlag(available_flags, token)
    IN
    IF found = 0
    THEN [P EXCEPT !.additional_args = Append(@, token), !.index = @ + 1]
    ELSE
    LET map == available_flags[found]
        flag_name == token
    IN
    IF map.input > FLAG_INPUT_IGNORE
    THEN
        IF P.index + 1 >= list_length
        THEN [P EXCEPT !.raised =
                 InputError("missing", None, flag_name, TypeName(map.input))]
        ELSE
        LET next == P.inputlist[P.index + 2]
            c == Coerce(map.input, next)
        IN
        IF ~c.ok
        THEN [P EXCEPT !.index = @ + 1,
                       !.raised = InputError("invalid", next, flag_name,
                                             TypeName(map.input))]
        ELSE [P EXCEPT
                !.active_flags = RecordActivation(@,
                    Activation(map, flag_name, c.value)),
                !.index = IndexAfterFlag(@, TRUE)]
    ELSE [P EXCEPT
            !.active_flags = RecordActivation(@,
                Activation(map, flag_name, NoneInput)),
            !.index = IndexAfterFlag(@, FALSE)]

RECURSIVE Loop(_, _)
Loop(available_flags, P) ==
    IF P.raised # NoException \/ P.index >= Len(P.inputlist) THEN P
    ELSE Loop(available_flags, LoopBody(available_flags, P))

\* The parser state at the head of the loop: lines 1260-1268.
ParseStart(inp, is_cmd) ==
    LET pre == _precheck_input(inp) IN
    [inputlist |-> IF is_cmd THEN Tail(pre) ELSE pre,
     index |-> 0,
     active_flags |-> <<>>,
     additional_args |-> <<>>,
     raised |-> NoException]

\* A whole call parse_line(command, input, is_command) on a fresh parser.
parse_line(cmd, inp, is_cmd) ==
    Loop(cmd.available_flags, ParseStart(inp, is_cmd))

---------------------------------------------------------------------------
(* Inputs of the parser specification *)

MaxLen == 4

tok_a == <<"-", "-", "a">>
tok_short_a == <<"-", "a">>
tok_n == <<"-", "-", "n">>
tok_x == <<"x">>
tok_42 == <<"4", "2">>
tok_4_5 == <<"4", ".", "5">>

Tokens == {tok_a, tok_short_a, tok_n, tok_x, tok_42, tok_4_5}

Lines(maxlen) == UNION {[1..n -> Tokens] : n \in 0..maxlen}

\* Arguments of add_flag calls a host makes, as in example.py:11-16 (names
\* with and without their markers).
Registration(longf, shortf, input_kind, method) ==
    [longf |-> longf, shortf |-> shortf, description |-> <<"d">>,
     input |-> input_kind, method |-> method]

RegA == Registration(<<"a">>, <<"a">>, FLAG_INPUT_IGNORE, Callable("on_a"))
RegB == Registration(<<"-", "-", "b">>, <<"-", "a">>, FLAG_INPUT_IGNORE, None)
RegNInt == Registration(<<"-", "-", "n">>, None, FLAG_INPUT_INT, None)
RegNFloat == Registration(<<"n">>, <<"a">>, FLAG_INPUT_FLOAT, None)
RegNStr == Registration(<<"n">>, None, FLAG_INPUT_STR, Callable("on_n"))

\* The registries parsed against: those of the terminal Command are parsed
\* as Console._terminal_process_flags does (a list headed by the program
\* name, is_command False), those of a console command as Console_Program.run
\* does (a line headed by the command name, is_command True).
Host(cmd, regs) == [is_command |-> cmd, regs |-> regs]

Registrations == {Host(FALSE, <<RegA>>),
                  Host(TRUE, <<RegA, RegNInt>>),
                  Host(FALSE, <<RegNFloat, RegA>>),
                  Host(TRUE, <<RegNStr, RegA>>),
                  Host(TRUE, <<RegB, RegA>>),
                  Host(FALSE, <<RegNInt, RegNStr>>)}

\* The Command after the add_flag calls regs, made in order.
RECURSIVE Registered(_, _)
Registered(cmd, regs) ==
    IF regs = <<>> THEN cmd
    ELSE LET r == regs[1] IN
         Registered(
            [cmd EXCEPT !.available_flags =
                add_flag(@, r.longf, r.shortf, r.description, r.input,
                         r.method).available_flags],
            Tail(regs))

command_name_c == <<"c">>

_dummy == Callable("_dummy")

---------------------------------------------------------------------------
(* The Console before its constructor has run: lines 434-446 *)

NoCall == [op |-> "none", raised |-> NoException]

ConsoleNew ==
    /\ phase = "new"
    /\ terminal = None
    /\ terminal_active_flags = <<>>
    /\ terminal_additional_args = <<>>
    /\ _processed_flag_options = FALSE
    /\ _DI_settings = [verbose |-> DI_IGNORE, debug |-> DI_IGNORE,
                       verbosedebug |-> DI_IGNORE]
    /\ display_information_settings = NoAttribute
    /\ _available_commands = <<>>
    /\ current_command_name = None
    /\ current_command_active_flags = <<>>
    /\ current_command_additional_args = <<>>
    /\ current_flag_name = None
    /\ current_flag_input = NoneInput
    /\ calls = <<>>
    /\ last_call = NoCall
    /\ ncalls = 0

\* A parser object on which parse_line has not been called: lines 1219-1221.
ParserNew ==
    /\ inputlist = <<>>
    /\ index = 0
    /\ active_flags = None
    /\ additional_args = None
    /\ raised = NoException
    /\ ppc = "idle"

\* The console loops one Console can have: console_start makes a new
\* Console_Program at each call, the first and a second one are modelled.
LoopIds == {1, 2}

\* A Console_Program that is not constructed yet
NoLoop ==
    [pc |-> "unstarted",        \* unstarted, read, handler, done, raised
     is_thread |-> FALSE,
     do_loop |-> TRUE,
     input_list |-> <<>>,       \* the tokens of the line being dispatched
     command |-> 0,             \* position of the matched Command in the registry
     active_flags |-> None,     \* parser.active_flags of the loop's parser
     additional_args |-> None,  \* parser.additional_args
     running |-> "none",        \* the call in progress: flag, help, primary
     map |-> 0,                 \* position of the flag whose handler runs
     trace |-> <<>>,            \* handler invocations of the current line
     unknown |-> <<>>,          \* unknown-command diagnostics written
     cleanups |-> 0,            \* calls of the cleanup hook
     signal |-> "none",         \* KeyboardInterrupt or SystemExit caught by run
     raised |-> NoException]    \* the exception that left run

\* No console_start call was made: lines 486-505 have not run
LoopNew ==
    /\ loops = [w \in LoopIds |-> NoLoop]
    /\ caller = [pc |-> "ready", loop |-> 0]
    /\ shutdown = <<"unbound">>
    /\ cancel_requested = FALSE
    /\ nread = 0
    /\ console_command_name = <<"unset">>
    /\ console_command_active_flags = <<"unset">>
    /\ console_command_additional_args = <<"unset">>

---------------------------------------------------------------------------
(* ParserSpec: one call of parse_line, one loop iteration per step *)

ParserInit ==
    /\ \E host \in Registrations, body \in Lines(MaxLen) :
          LET head == IF host.is_command THEN command_name_c ELSE program_name IN
          /\ is_command = host.is_command
          /\ command = Registered(Command(head, _dummy, <<"d">>, <<>>).command,
                                  host.regs)
          /\ input = <<head>> \o body
    /\ ParserNew
    /\ argv = <<program_name>>
    /\ ConsoleNew
    /\ LoopNew

ParserState ==
    [inputlist |-> inputlist, index |-> index, active_flags |-> active_flags,
     additional_args |-> additional_args, raised |-> raised]

SetParserState(P) ==
    /\ inputlist' = P.inputlist
    /\ index' = P.index
    /\ active_flags' = P.active_flags
    /\ additional_args' = P.additional_args
    /\ raised' = P.raised

\* Lines 1260-1268
ParseBegin ==
    /\ ppc = "idle"
    /\ SetParserState(ParseStart(input, is_command))
    /\ ppc' = "scan"
    /\ UNCHANGED <<command, input, is_command, console_vars, loop_vars>>

\* A loop iteration on a token that matches no flag: line 1321
ScanArgument ==
    /\ ppc = "scan"
    /\ index < Len(inputlist)
    /\ FindFlag(command.available_flags, inputlist[index + 1]) = 0
    /\ SetParserState(LoopBody(command.available_flags, ParserState))
    /\ UNCHANGED <<ppc, command, input, is_command, console_vars, loop_vars>>

\* A loop iteration on a flag token that records an activation: lines 1282-1319
ScanFlag ==
    /\ ppc = "scan"
    /\ index < Len(inputlist)
    /\ FindFlag(command.available_flags, inputlist[index + 1]) # 0
    /\ LET P == LoopBody(command.available_flags, ParserState) IN
          /\ P.raised = NoException
          /\ SetParserState(P)
    /\ UNCHANGED <<ppc, command, input, is_command, console_vars, loop_vars>>

\* A loop iteration that raises InputError: lines 1293, 1303, 1309
ScanRaise ==
    /\ ppc = "scan"
    /\ index < Len(inputlist)
    /\ LET P == LoopBody(command.available_flags, ParserState) IN
          /\ P.raised # NoException
          /\ SetParserState(P)
    /\ ppc' = "raised"
    /\ UNCHANGED <<command, input, is_command, console_vars, loop_vars>>

\* The loop condition fails and parse_line returns
ParseReturn ==
    /\ ppc = "scan"
    /\ index >= Len(inputlist)
    /\ ppc' = "returned"
    /\ UNCHANGED <<command, input, is_command, inputlist, index, active_flags,
                   additional_args, raised, console_vars, loop_vars>>

ParserNext ==
    \/ ParseBegin
    \/ ScanArgument
    \/ ScanFlag
    \/ ScanRaise
    \/ ParseReturn

ParserSpec == ParserInit /\ [][ParserNext]_vars

---------------------------------------------------------------------------
(* What a parse is expected to yield, stated on the scanned line and the   *)
(* registry, position by position (positions are 1-based).                 *)

Matches(flag, token) == token = flag.longf \/ token = flag.shortf

Matching(token) ==
    {k \in 1..Len(command.available_flags) :
        Matches(command.available_flags[k], token)}

\* The registry entry a token resolves to: the first registered match
FirstMatching(token) ==
    CHOOSE k \in Matching(token) : \A j \in Matching(token) : k <= j

IsFlagToken(token) == Matching(token) # {}

KindOf(token) == command.available_flags[FirstMatching(token)].input

NameOf(token) == command.available_flags[FirstMatching(token)].longf

TokenTakesInput(token) ==
    IsFlagToken(token) /\ KindOf(token) > FLAG_INPUT_IGNORE

\* Position i is read as a flag or an argument, and is not the input of the
\* flag before it.
RECURSIVE IsScanned(_)
IsScanned(i) ==
    \/ i = 1
    \/ ~(IsScanned(i - 1) /\ TokenTakesInput(inputlist[i - 1]))

FlagPositions ==
    {i \in 1..Len(inputlist) : IsScanned(i) /\ IsFlagToken(inputlist[i])}

ArgPositions ==
    {i \in 1..Len(inputlist) : IsScanned(i) /\ ~IsFlagToken(inputlist[i])}

ConsumedPositions == {i \in 1..Len(inputlist) : ~IsScanned(i)}

\* The last position at which each activated flag occurs
LastPositions ==
    {i \in FlagPositions :
        \A j \in FlagPositions :
            NameOf(inputlist[j]) = NameOf(inputlist[i]) => j <= i}

RECURSIVE Ascending(_)
Ascending(S) ==
    IF S = {} THEN <<>>
    ELSE LET m == CHOOSE x \in S : \A y \in S : x <= y
         IN <<m>> \o Ascending(S \ {m})

\* The number a string of digits denotes, by place value
PlaceValue(digits) ==
    LET n == Len(digits)
        term[i \in 0..n] ==
            IF i = 0 THEN 0
            ELSE term[i - 1] + DigitValue(digits[i]) * Pow10(n - i)
    IN term[n]

IsIntNumeral(token) ==
    /\ token # <<>>
    /\ \A i \in 1..Len(token) : token[i] \in Digits

IsFloatNumeral(token) ==
    /\ \E i \in 1..Len(token) : token[i] \in Digits
    /\ \A i \in 1..Len(token) : token[i] \in Digits \cup {"."}
    /\ \A i, j \in 1..Len(token) : token[i] = "." /\ token[j] = "." => i = j

IsDigitOrNot(c) == c \in Digits

\* The value of the activation that position p of the line gives
DenotedBy(p, value) ==
    LET kind == KindOf(inputlist[p])
        token == inputlist[p + 1]
    IN CASE kind = FLAG_INPUT_IGNORE -> value = NoneInput
         [] kind = FLAG_INPUT_STR -> value = [type |-> "str", value |-> token]
         [] kind = FLAG_INPUT_INT ->
                /\ IsIntNumeral(token)
                /\ value.type = "int"
                /\ value.value = PlaceValue(token)
         [] kind = FLAG_INPUT_FLOAT ->
                /\ IsFloatNumeral(token)
                /\ value.type = "float"
                /\ value.den > 0
                /\ LET digits == SelectSeq(token, IsDigitOrNot)
                       point == {i \in 1..Len(token) : token[i] = "."}
                       places == IF point = {} THEN 0
                                 ELSE Len(token) - (CHOOSE i \in point : TRUE)
                   IN value.num * Pow10(places) = value.den * PlaceValue(digits)

---------------------------------------------------------------------------
(* Claims about parse_line, checked under ParserSpec *)

Parsing == ppc \in {"scan", "returned", "raised"}

\* C1: the active-flag list holds at most one activation per long name,
\* however often the flag occurs in the line, by long or by short name;
\* ['--a', '--a'] for a no-input flag --a gives a list of length 1.
C1_OneActivationPerLongName ==
    /\ Parsing =>
          \A i, j \in 1..Len(active_flags) :
              active_flags[i].longf = active_flags[j].longf => i = j
    /\ (/\ ppc = "returned"
        /\ inputlist = <<tok_a, tok_a>>
        /\ IsFlagToken(tok_a)
        /\ KindOf(tok_a) = FLAG_INPUT_IGNORE) => Len(active_flags) = 1

\* A flag given by its long and by its short name in one line, one activation
C1_Witness ==
    /\ ppc = "returned"
    /\ \E i, j \in FlagPositions :
          /\ inputlist[i] = tok_a
          /\ inputlist[j] = tok_short_a
          /\ NameOf(tok_a) = NameOf(tok_short_a)
    /\ Len(active_flags) = 1

\* C2: of a flag that occurs several times only the activation of its last
\* occurrence is kept, with that occurrence's coerced input, and the list is
\* ordered by the position of each flag's last occurrence in the line.
C2_LastOccurrenceOrder ==
    ppc = "returned" =>
        LET order == Ascending(LastPositions) IN
        /\ Len(active_flags) = Len(order)
        /\ \A k \in 1..Len(order) :
              /\ active_flags[k].longf = NameOf(inputlist[order[k]])
              /\ active_flags[k].input =
                    IF TokenTakesInput(inputlist[order[k]])
                    THEN Coerce(KindOf(inputlist[order[k]]),
                                inputlist[order[k] + 1]).value
                    ELSE NoneInput

\* A flag mentioned first, then another flag, then the first flag again: the
\* repeated flag stands last although it was mentioned first.
C2_Witness ==
    /\ ppc = "returned"
    /\ \E i, j, k \in FlagPositions :
          /\ i < j /\ j < k
          /\ NameOf(inputlist[i]) = NameOf(inputlist[k])
          /\ NameOf(inputlist[j]) # NameOf(inputlist[i])
          /\ Len(active_flags) = 2
          /\ active_flags[1].longf = NameOf(inputlist[j])
          /\ active_flags[2].longf = NameOf(inputlist[i])

\* C3 as stated: the additional args are exactly the tokens of the line that
\* match no registered flag's long or short name, in their original order.
C3_AllUnmatchedTokens ==
    ppc = "returned" =>
        LET Unmatched(token) == ~IsFlagToken(token)
        IN additional_args = SelectSeq(inputlist, Unmatched)

\* C3 amended: for every line parse_line accepts, the additional args are
\* exactly the tokens that match no registered flag's long or short name and
\* are not consumed as the input of the flag before them, in their original
\* order, whatever flags stand between them.
C3_LeftoverArgs ==
    /\ ppc = "returned" =>
          LET order == Ascending(ArgPositions) IN
          additional_args = [k \in 1..Len(order) |-> inputlist[order[k]]]
    /\ (/\ ppc = "returned"
        /\ inputlist = <<tok_x, tok_a, tok_42>>
        /\ IsFlagToken(tok_a)
        /\ KindOf(tok_a) = FLAG_INPUT_IGNORE)
          => additional_args = <<tok_x, tok_42>>

\* Two leftover tokens with a flag and its consumed input between them
C3_Witness ==
    /\ ppc = "returned"
    /\ \E i, j \in ArgPositions, f \in FlagPositions, c \in ConsumedPositions :
          /\ i < f /\ f < c /\ c < j
          /\ ~IsFlagToken(inputlist[c])
    /\ Len(additional_args) = 2

\* C4 as stated: when a flag that takes input is the final token, parse_line
\* fails with InputError (missing input) and the parser's active-flag list
\* read after the failure is empty, also when earlier tokens were valid flags.
C4_NoActivationsAfterMissingInput ==
    (ppc = "raised" /\ raised.kind = "missing") =>
        /\ raised.type = "InputError"
        /\ active_flags = <<>>

\* C5: the token after an int or float flag is coerced: a numeral gives the
\* number it denotes (42 for '42'), anything else makes parse_line fail with
\* InputError (invalid input) naming the token and the flag; for str the
\* token is kept unchanged.
C5_Coercion ==
    /\ ppc = "returned" =>
          /\ \A p \in FlagPositions :
                /\ KindOf(inputlist[p]) = FLAG_INPUT_INT
                      => IsIntNumeral(inputlist[p + 1])
                /\ KindOf(inputlist[p]) = FLAG_INPUT_FLOAT
                      => IsFloatNumeral(inputlist[p + 1])
          /\ LET order == Ascending(LastPositions) IN
             \A k \in 1..Len(active_flags) :
                /\ k <= Len(order)
                /\ DenotedBy(order[k], active_flags[k].input)
                /\ (/\ KindOf(inputlist[order[k]]) = FLAG_INPUT_INT
                    /\ inputlist[order[k] + 1] = tok_42)
                      => active_flags[k].input = [type |-> "int", value |-> 42]
                /\ (/\ KindOf(inputlist[order[k]]) = FLAG_INPUT_FLOAT
                    /\ inputlist[order[k] + 1] = tok_42)
                      => active_flags[k].input =
                            [type |-> "float", num |-> 42, den |-> 1]
                /\ (/\ KindOf(inputlist[order[k]]) = FLAG_INPUT_FLOAT
                    /\ inputlist[order[k] + 1] = tok_4_5)
                      => active_flags[k].input =
                            [type |-> "float", num |-> 9, den |-> 2]
    /\ (ppc = "raised" /\ raised.kind = "invalid") =>
          /\ raised.type = "InputError"
          /\ index >= 1 /\ index < Len(inputlist)
          /\ raised.flag = inputlist[index]
          /\ raised.token = inputlist[index + 1]
          /\ IsScanned(index)
          /\ \/ /\ KindOf(inputlist[index]) = FLAG_INPUT_INT
                /\ ~IsIntNumeral(inputlist[index + 1])
                /\ raised.expected = "int"
             \/ /\ KindOf(inputlist[index]) = FLAG_INPUT_FLOAT
                /\ ~IsFloatNumeral(inputlist[index + 1])
                /\ raised.expected = "float"
    /\ (ppc = "raised" /\ raised.kind = "missing") =>
          /\ index + 1 = Len(inputlist)
          /\ TokenTakesInput(inputlist[index + 1])

\* An int flag followed by the numeral 42, activated with the value 42
C5_Witness ==
    /\ ppc = "returned"
    /\ \E p \in FlagPositions :
          /\ KindOf(inputlist[p]) = FLAG_INPUT_INT
          /\ inputlist[p + 1] = tok_42
    /\ \E k \in 1..Len(active_flags) :
          active_flags[k].input = [type |-> "int", value |-> 42]

\* C6: the token after a flag that takes input is consumed as its input and
\* never matched against the registry: it is neither activated as a flag nor
\* added to the additional args, even when it equals a registered flag name.
C6_InputConsumed ==
    ppc = "returned" =>
        /\ \A k \in 1..Len(active_flags) :
              \E p \in FlagPositions :
                  active_flags[k].longf = NameOf(inputlist[p])
        /\ Len(additional_args) = Cardinality(ArgPositions)
        /\ \A c \in ConsumedPositions :
              /\ c - 1 \in FlagPositions
              /\ TokenTakesInput(inputlist[c - 1])
              /\ \E k \in 1..Len(active_flags) :
                    /\ active_flags[k].longf = NameOf(inputlist[c - 1])
                    /\ (c - 1 \in LastPositions /\
                        KindOf(inputlist[c - 1]) = FLAG_INPUT_STR)
                          => active_flags[k].input.value = inputlist[c]

\* A registered flag name consumed as the input of a str flag: its flag is
\* not activated and the token is not an additional arg.
C6_Witness ==
    /\ ppc = "returned"
    /\ inputlist = <<tok_n, tok_a>>
    /\ KindOf(tok_n) = FLAG_INPUT_STR
    /\ IsFlagToken(tok_a)
    /\ Len(active_flags) = 1
    /\ active_flags[1].longf = tok_n
    /\ active_flags[1].input = [type |-> "str", value |-> tok_a]
    /\ additional_args = <<>>

\* C7 as stated: for every registered flag without input kind, a line that
\* holds only its long name, or only its short name, yields exactly one
\* activation under the flag's long name with value None, and no args.
C7_EveryNoInputFlag ==
    \A k \in 1..Len(command.available_flags) :
        LET flag == command.available_flags[k] IN
        (/\ ppc \in {"returned", "raised"}
         /\ Len(inputlist) = 1
         /\ Matches(flag, inputlist[1])
         /\ flag.input = FLAG_INPUT_IGNORE)
        => /\ ppc = "returned"
           /\ Len(active_flags) = 1
           /\ active_flags[1].longf = flag.longf
           /\ active_flags[1].input = NoneInput
           /\ additional_args = <<>>

\* C7 amended: the same, for every registered flag without input kind that is
\* the first entry of its registry matching the token (no flag registered
\* before it has the token as its long or short name).
C7_FirstNoInputFlag ==
    \A k \in 1..Len(command.available_flags) :
        LET flag == command.available_flags[k] IN
        (/\ ppc \in {"returned", "raised"}
         /\ Len(inputlist) = 1
         /\ Matches(flag, inputlist[1])
         /\ FirstMatching(inputlist[1]) = k
         /\ flag.input = FLAG_INPUT_IGNORE)
        => /\ ppc = "returned"
           /\ Len(active_flags) = 1
           /\ active_flags[1].longf = flag.longf
           /\ active_flags[1].input = NoneInput
           /\ active_flags[1].method = flag.method
           /\ additional_args = <<>>

\* A line holding only the short name of a host-registered no-input flag
C7_Witness ==
    /\ ppc = "returned"
    /\ inputlist = <<tok_short_a>>
    /\ IsFlagToken(tok_short_a)
    /\ FirstMatching(tok_short_a) > 1
    /\ KindOf(tok_short_a) = FLAG_INPUT_IGNORE
    /\ NameOf(tok_short_a) = tok_a
    /\ active_flags = <<[longf |-> tok_a, description |-> <<"d">>,
                         input |-> NoneInput, method |-> Callable("on_a")]>>

\* The type of the input value a flag of the given input kind is activated
\* with
InputTypeOf(input_kind) ==
    CASE input_kind = FLAG_INPUT_STR -> "str"
      [] input_kind = FLAG_INPUT_INT -> "int"
      [] input_kind = FLAG_INPUT_FLOAT -> "float"
      [] OTHER -> "NoneType"

\* C31: when several flags of the registry match the token being scanned
\* (by a shared long name or a shared short name), the activation that
\* parse_line records is that of the flag registered first: it carries the
\* first definition's long name, handler and input kind, so no token ever
\* selects a later definition that an earlier one shadows.
C31_FirstRegisteredWins ==
    [][(/\ ppc = "scan" /\ ppc' = "scan"
        /\ index' > index
        /\ additional_args' = additional_args)
        =>
        LET token == inputlist[index + 1]
            flags == command.available_flags
            new == active_flags'[Len(active_flags')]
        IN
        /\ Matching(token) # {}
        /\ \E first \in Matching(token) :
              /\ \A k \in Matching(token) : first <= k
              /\ new.longf = flags[first].longf
              /\ new.method = flags[first].method
              /\ new.input.type = InputTypeOf(flags[first].input)]_vars

\* The registry holds --b/-a and, registered after it, --a/-a: the line
\* ['-a'] has activated --b, the flag with no handler, and not --a
C31_Witness ==
    /\ ppc = "returned"
    /\ inputlist = <<tok_short_a>>
    /\ \E j, k \in Matching(tok_short_a) :
          /\ j < k
          /\ command.available_flags[j].longf = <<"-", "-", "b">>
          /\ command.available_flags[k].longf = tok_a
    /\ Len(active_flags) = 1
    /\ active_flags[1].longf = <<"-", "-", "b">>
    /\ active_flags[1].method = None

\* C37: the scan index of parse_line grows with every iteration and never
\* passes the end of the line, so the loop ends after at most as many
\* iterations as the line has tokens.  An iteration that does not raise
\* accounts for the tokens it steps over: a token that matches no flag is
\* appended to the additional args and the index grows by one; a flag token
\* is activated, the additional args stay, and the index grows by one, or by
\* two when the flag takes the next token as its input.  When parse_line
\* returns, the index is the length of the line, and the length of the line
\* is the number of additional args plus the number of flag tokens plus the
\* number of consumed inputs.
C37_EveryTokenAccountedOnce ==
    [][/\ (ppc = "scan" /\ ppc' = "scan") =>
             LET token == inputlist[index + 1] IN
             /\ index' > index
             /\ index' <= Len(inputlist)
             /\ inputlist' = inputlist
             /\ IF IsFlagToken(token)
                THEN /\ additional_args' = additional_args
                     /\ active_flags'[Len(active_flags')].longf = NameOf(token)
                     /\ index' = IF TokenTakesInput(token) THEN index + 2
                                  ELSE index + 1
                ELSE /\ additional_args' = Append(additional_args, token)
                     /\ active_flags' = active_flags
                     /\ index' = index + 1
       /\ (ppc = "scan" /\ ppc' = "raised") =>
             /\ index' >= index
             /\ index' < Len(inputlist)
             /\ additional_args' = additional_args
       /\ (ppc = "scan" /\ ppc' = "returned") =>
             /\ index = Len(inputlist)
             /\ Len(additional_args) = Cardinality(ArgPositions)
             /\ Len(inputlist) = Len(additional_args)
                                  + Cardinality(FlagPositions)
                                  + Cardinality(ConsumedPositions)]_vars

\* parse_line has returned on a line with an additional arg, a flag without
\* input, and a flag with the input it consumed
C37_Witness ==
    /\ ppc = "returned"
    /\ Len(inputlist) = MaxLen
    /\ Cardinality(ArgPositions) = 1
    /\ Cardinality(ConsumedPositions) = 1
    /\ Cardinality(FlagPositions) = MaxLen - 2
    /\ \E p \in FlagPositions : ~TokenTakesInput(inputlist[p])
    /\ Len(additional_args) = 1

---------------------------------------------------------------------------
(* Console: the object's fields as a record, so that a method is an        *)
(* operator from the object (and its arguments) to the object afterwards,  *)
(* the exception it raised and whether the process exited.                 *)

Self ==
    [terminal |-> terminal,
     terminal_active_flags |-> terminal_active_flags,
     terminal_additional_args |-> terminal_additional_args,
     _processed_flag_options |-> _processed_flag_options,
     _DI_settings |-> _DI_settings,
     display_information_settings |-> display_information_settings,
     _available_commands |-> _available_commands,
     current_command_name |-> current_command_name,
     current_command_active_flags |-> current_command_active_flags,
     current_command_additional_args |-> current_command_additional_args,
     current_flag_name |-> current_flag_name,
     current_flag_input |-> current_flag_input,
     calls |-> calls]

SetSelf(self) ==
    /\ terminal' = self.terminal
    /\ terminal_active_flags' = self.terminal_active_flags
    /\ terminal_additional_args' = self.terminal_additional_args
    /\ _processed_flag_options' = self._processed_flag_options
    /\ _DI_settings' = self._DI_settings
    /\ display_information_settings' = self.display_information_settings
    /\ _available_commands' = self._available_commands
    /\ current_command_name' = self.current_command_name
    /\ current_command_active_flags' = self.current_command_active_flags
    /\ current_command_additional_args' = self.current_command_additional_args
    /\ current_flag_name' = self.current_flag_name
    /\ current_flag_input' = self.current_flag_input
    /\ calls' = self.calls

Outcome(self, exc, exited) == [self |-> self, raised |-> exc, exited |-> exited]

Returns(self) == Outcome(self, NoException, FALSE)

Raises(self, exc) == Outcome(self, exc, FALSE)

CallError(msg) == [type |-> "CallError", message |-> msg]

AttributeError(msg) == [type |-> "AttributeError", message |-> msg]

\* A handler is invoked: what it can read of the dispatch context, and the
\* startup guard, at that moment.
Invoke(self, handler) ==
    [self EXCEPT !.calls = Append(@,
        [handler |-> handler,
         current_command_name |-> self.current_command_name,
         current_flag_name |-> self.current_flag_name,
         current_flag_input |-> self.current_flag_input,
         _processed_flag_options |-> self._processed_flag_options,
         _DI_settings |-> self._DI_settings])]

default_flag_handler == Callable("default_flag_handler")

\* terminal_add_flag putting the new flag in front of the registry
terminal_add_flag_at_front(self, longf, shortf, description, input_kind, method) ==
    IF self._processed_flag_options
    THEN Raises(self, CallError("Attempting to add a terminal flag after terminal flags have been parsed"))
    ELSE LET flags == self.terminal.available_flags
             r == add_flag(flags, longf, shortf, description, input_kind, method)
         IN Outcome([self EXCEPT !.terminal.available_flags =
                        IF r.raised = NoException
                        THEN <<r.available_flags[Len(r.available_flags)]>> \o flags
                        ELSE flags],
                    r.raised, FALSE)

\* Console.terminal_add_flag
terminal_add_flag(self, longf, shortf, description, input_kind, method) ==
    IF self._processed_flag_options
    THEN Raises(self, CallError("Attempting to add a terminal flag after terminal flags have been parsed"))
    ELSE LET r == add_flag(self.terminal.available_flags, longf, shortf,
                           description, input_kind, method)
         IN Outcome([self EXCEPT !.terminal.available_flags = r.available_flags],
                    r.raised, FALSE)

\* add_flag called on the Console's public attribute terminal
terminal_dot_add_flag(self, longf, shortf, description, input_kind, method) ==
    LET r == add_flag(self.terminal.available_flags, longf, shortf,
                      description, input_kind, method)
    IN Outcome([self EXCEPT !.terminal.available_flags = r.available_flags],
               r.raised, FALSE)

\* str.split("=")
RECURSIVE SplitEq(_)
SplitEq(s) ==
    LET eqs == {i \in 1..Len(s) : s[i] = "="} IN
    IF eqs = {} THEN <<s>>
    ELSE LET i == CHOOSE x \in eqs : \A y \in eqs : x <= y
         IN <<SubSeq(s, 1, i - 1)>> \o SplitEq(SubSeq(s, i + 1, Len(s)))

\* str.lower() on the model's alphabet
Lower(s) ==
    [i \in 1..Len(s) |->
        CASE s[i] = "D" -> "d" [] s[i] = "L" -> "l" [] OTHER -> s[i]]

STR_FLAG_INPUT_STR == <<"s", "t", "r">>
STR_FLAG_INPUT_INT == <<"i", "n", "t">>
STR_FLAG_INPUT_FLOAT == <<"f", "l", "o", "a", "t">>

\* QuickInputType reading no input type off the list item
QuickInputTypeIgnoring(flag_list) == FLAG_INPUT_IGNORE

\* Lines 626-635: the input type a list item asks for
QuickInputType(flag_list) ==
    IF Len(flag_list) = 2
    THEN LET option == Lower(flag_list[2]) IN
         CASE option = STR_FLAG_INPUT_STR -> FLAG_INPUT_STR
           [] option = STR_FLAG_INPUT_INT -> FLAG_INPUT_INT
           [] option = STR_FLAG_INPUT_FLOAT -> FLAG_INPUT_FLOAT
           [] OTHER -> FLAG_INPUT_IGNORE
    ELSE FLAG_INPUT_IGNORE

\* Lines 620-638: the loop over longf_list from item i on
RECURSIVE QuickaddFrom(_, _, _, _)
QuickaddFrom(self, longf_list, shortf_list, i) ==
    IF i > Len(longf_list) THEN Returns(self)
    ELSE IF ~IsStr(longf_list[i])
    THEN Raises(self, AttributeError("List item in argument 'longf_list' is not of type 'string'"))
    ELSE
    LET flag_list == SplitEq(longf_list[i])
        r == terminal_add_flag(self, flag_list[1], shortf_list[i], <<>>,
                               QuickInputType(flag_list), None)
    IN IF r.raised # NoException THEN r
       ELSE QuickaddFrom(r.self, longf_list, shortf_list, i + 1)

\* Console.terminal_quickadd_flags(longf_list, shortf_str)
terminal_quickadd_flags(self, longf_list, shortf_str) ==
    IF shortf_str # None /\ shortf_str # <<>> /\ ~IsStr(shortf_str)
    THEN Raises(self, AttributeError("Argument 'shortf_str' is not of type 'string'"))
    ELSE IF shortf_str # None
              /\ \E i \in (Len(longf_list) + 1)..Len(shortf_str) :
                    shortf_str[i] # "?"
    THEN Raises(self, [type |-> "IndexError",
                       message |-> "list assignment index out of range"])
    ELSE
    LET shortf_list ==
            [i \in 1..Len(longf_list) |->
                IF shortf_str # None /\ i <= Len(shortf_str) /\ shortf_str[i] # "?"
                THEN <<shortf_str[i]>> ELSE None]
    IN QuickaddFrom(self, longf_list, shortf_list, 1)

\* Console._add_default_flags
_add_default_flags(self) ==
    LET f1 == add_flag(self.terminal.available_flags, <<"-", "-", "l", "o", "g">>, <<"-", "l">>,
                       <<"d">>, FLAG_INPUT_IGNORE, None).available_flags
        f2 == add_flag(f1, <<"-", "-", "l", "o", "g", "-", "s", "t", "d", "o", "u", "t">>, <<"-", "L">>,
                       <<"d">>, FLAG_INPUT_IGNORE, None).available_flags
        f3 == add_flag(f2, <<"-", "-", "v", "e", "r", "b", "o", "s", "e">>, <<"-", "v">>,
                       <<"d">>, FLAG_INPUT_IGNORE, None).available_flags
        f4 == add_flag(f3, <<"-", "-", "d", "e", "b", "u", "g">>, <<"-", "d">>,
                       <<"d">>, FLAG_INPUT_IGNORE, None).available_flags
        f5 == add_flag(f4, <<"-", "-", "v", "e", "r", "b", "o", "s", "e", "-", "d", "e", "b", "u", "g">>, <<"-", "D">>,
                       <<"d">>, FLAG_INPUT_IGNORE, None).available_flags
    IN [self EXCEPT !.terminal.available_flags = f5]

\* _update_active_DI(level): lines 677-685
RECURSIVE _update_active_DI(_, _, _)
_update_active_DI(settings, active, level) ==
    IF active = <<>> THEN settings
    ELSE LET flag == active[1].longf
             s2 == CASE flag = <<"-", "-", "v", "e", "r", "b", "o", "s", "e">> -> [settings EXCEPT !.verbose = level]
                     [] flag = <<"-", "-", "d", "e", "b", "u", "g">> -> [settings EXCEPT !.debug = level]
                     [] flag = <<"-", "-", "v", "e", "r", "b", "o", "s", "e", "-", "d", "e", "b", "u", "g">> ->
                            [settings EXCEPT !.verbosedebug = level]
                     [] OTHER -> settings
         IN _update_active_DI(s2, Tail(active), level)

\* The loop of lines 687-705 from activation i on: the settings and do_exit
RECURSIVE RouteFlags(_, _, _, _)
RouteFlags(settings, do_exit, active, i) ==
    IF i > Len(active) THEN [settings |-> settings, do_exit |-> do_exit]
    ELSE LET flag == active[i].longf IN
         CASE flag = <<"-", "-", "h", "e", "l", "p">> -> RouteFlags(settings, TRUE, active, i + 1)
           [] flag = <<"-", "-", "l", "o", "g">> ->
                RouteFlags(_update_active_DI(settings, active, DI_LOG),
                           do_exit, active, i + 1)
           [] flag = <<"-", "-", "l", "o", "g", "-", "s", "t", "d", "o", "u", "t">> ->
                RouteFlags(_update_active_DI(settings, active, DI_STDOUT_LOG),
                           do_exit, active, i + 1)
           [] flag = <<"-", "-", "v", "e", "r", "b", "o", "s", "e">> ->
                RouteFlags([settings EXCEPT !.verbose = DI_STDOUT],
                           do_exit, active, i + 1)
           [] flag = <<"-", "-", "d", "e", "b", "u", "g">> ->
                RouteFlags([settings EXCEPT !.debug = DI_STDOUT],
                           do_exit, active, i + 1)
           [] flag = <<"-", "-", "v", "e", "r", "b", "o", "s", "e", "-", "d", "e", "b", "u", "g">> ->
                RouteFlags([settings EXCEPT !.debug = DI_STDOUT,
                                            !.verbosedebug = DI_STDOUT],
                           do_exit, active, i + 1)
           [] OTHER -> RouteFlags(settings, do_exit, active, i + 1)

\* The activation the exit on help calls: exit_map of line 693
ExitMap(active) ==
    active[CHOOSE i \in 1..Len(active) :
              /\ active[i].longf = <<"-", "-", "h", "e", "l", "p">>
              /\ \A j \in (i + 1)..Len(active) : active[j].longf # <<"-", "-", "h", "e", "l", "p">>]

TERMINAL == <<"T", "E", "R", "M", "I", "N", "A", "L">>

\* StartupHandler without the fallback to default_flag_handler
StartupHandlerNoDefault(map) == map.method

\* The handler an activation is dispatched to at startup: lines 720-723
StartupHandler(map) ==
    IF map.method = None THEN default_flag_handler ELSE map.method

\* The loop of lines 717-723 from activation i on
RECURSIVE DispatchStartupFlags(_, _)
DispatchStartupFlags(self, i) ==
    IF i > Len(self.terminal_active_flags) THEN self
    ELSE LET map == self.terminal_active_flags[i]
             s1 == [self EXCEPT !.current_flag_name = map.longf,
                                !.current_flag_input = map.input]
         IN DispatchStartupFlags(Invoke(s1, StartupHandler(map)), i + 1)

\* What runs when help is among the active startup flags: lines 707-709
ExitOnHelp(self, exit_map) ==
    Outcome(Invoke(self, exit_map.method), [type |-> "SystemExit"], TRUE)

\* Lines 711-723: Display_Information is initialised with the routed
\* settings, the dispatch context is set, and the handlers are invoked.
RunStartupHandlers(self) ==
    Returns(DispatchStartupFlags(
        [self EXCEPT
            !.display_information_settings = self._DI_settings,
            !.current_command_name = TERMINAL,
            !.current_command_active_flags = self.terminal_active_flags,
            !.current_command_additional_args = self.terminal_additional_args],
        1))

\* AfterRouting treating help as one more flag: the handlers of the
\* activations run in order, then the process exits
AfterRoutingHelpInOrder(self, routed) ==
    IF routed.do_exit
    THEN Outcome(RunStartupHandlers(
                    [self EXCEPT !._DI_settings = routed.settings]).self,
                 [type |-> "SystemExit"], TRUE)
    ELSE RunStartupHandlers([self EXCEPT !._DI_settings = routed.settings])

\* Lines 687-723, routed being the outcome of the loop of lines 690-705
AfterRouting(self, routed) ==
    IF routed.do_exit
    THEN ExitOnHelp([self EXCEPT !._DI_settings = routed.settings],
                    ExitMap(self.terminal_active_flags))
    ELSE RunStartupHandlers([self EXCEPT !._DI_settings = routed.settings])

\* Lines 673-723, P being the parser after parse_line returned
AfterParse(self, P) ==
    AfterRouting(
        [self EXCEPT !.terminal_active_flags = P.active_flags,
                     !.terminal_additional_args = P.additional_args],
        RouteFlags(self._DI_settings, FALSE, P.active_flags, 1))

\* ProcessParsed going on with the activations the parser had collected
\* when parse_line raised, and raising after their handlers have run
ProcessParsedBestEffort(self, P) ==
    IF P.raised # NoException
    THEN Raises(AfterParse(self, P).self, P.raised)
    ELSE AfterParse(self, P)

\* Lines 669-723, P being the parser after the call of parse_line: an
\* InputError it raised leaves the method at line 672.
ProcessParsed(self, P) ==
    IF P.raised # NoException THEN Raises(self, P.raised)
    ELSE AfterParse(self, P)

\* _terminal_process_flags setting the guard once parse_line has returned
_terminal_process_flags_guard_after_parse(self) ==
    ProcessParsed(
        [self EXCEPT !._processed_flag_options =
            parse_line(self.terminal, argv, FALSE).raised = NoException],
        parse_line(self.terminal, argv, FALSE))

\* Console._terminal_process_flags
_terminal_process_flags(self) ==
    ProcessParsed([self EXCEPT !._processed_flag_options = TRUE],
                  parse_line(self.terminal, argv, FALSE))

\* AlreadyProcessed with the guard never found set
AlreadyProcessedNever(self) == FALSE

\* The guard of Console.terminal_process_flags: line 655
AlreadyProcessed(self) == self._processed_flag_options

\* Console.terminal_process_flags
terminal_process_flags(self) ==
    IF AlreadyProcessed(self)
    THEN Raises(self, CallError("Terminal has already parsed flag inputs"))
    ELSE _terminal_process_flags(self)

\* Console.console_add_command
console_add_command(self, name, method, description, usage) ==
    LET c == Command(name, method, description, usage) IN
    IF c.raised # NoException THEN Raises(self, c.raised)
    ELSE Returns([self EXCEPT !._available_commands = Append(@, c.command)])

\* Console.terminal_init, and its override MyProgram.terminal_init of
\* example.py
terminal_init(self, class) ==
    IF class = "MyProgram"
    THEN LET r1 == terminal_add_flag(self, <<"-", "-", "e", "x", "a", "m", "p", "l", "e">>, <<"-", "e">>, <<"d">>,
                                     FLAG_INPUT_INT, None).self
             r2 == terminal_add_flag(r1, <<"c", "u", "s", "t", "o", "m">>, <<"c">>, <<"d">>,
                                     FLAG_INPUT_IGNORE,
                                     Callable("custom_method")).self
         IN terminal_quickadd_flags(r2, <<<<"t", "e", "s", "t">>, <<"m", "o", "r", "e">>>>, <<"?", "m">>).self
    ELSE terminal_dot_add_flag(self, <<"-", "-", "t", "e", "s", "t">>, None, <<>>, FLAG_INPUT_FLOAT,
                               None).self

_console_help == Callable("_console_help")

\* Lines 456-458: the default commands
AddDefaultCommands(self) ==
    console_add_command(
        console_add_command(self, <<"e", "x", "i", "t">>, _dummy, <<"d">>,
                            <<>>).self,
        <<"h", "e", "l", "p">>, _console_help, <<"d">>, <<>>)

\* Lines 453-458, r being the outcome of the startup processing (an exception
\* or an exit there leaves the constructor)
ConstructorEnd(r) ==
    IF r.raised # NoException THEN r ELSE AddDefaultCommands(r.self)

\* Lines 448-451: the terminal Command, the default flags, terminal_init
ConstructTerminal(self, class, disable_default_flags) ==
    terminal_init(
        IF ~disable_default_flags
        THEN _add_default_flags(
                [self EXCEPT !.terminal =
                    Command(argv[1], _dummy, <<"d">>, <<>>).command])
        ELSE [self EXCEPT !.terminal =
                    Command(argv[1], _dummy, <<"d">>, <<>>).command],
        class)

\* Console.__init__ from line 448 on, the fields having the values of lines
\* 434-446
ConsoleConstructor(self, class, disable_default_flags, disable_auto_process_flags) ==
    ConstructorEnd(
        IF ~disable_auto_process_flags
        THEN _terminal_process_flags(
                ConstructTerminal(self, class, disable_default_flags))
        ELSE Returns(ConstructTerminal(self, class, disable_default_flags)))

---------------------------------------------------------------------------
(* Spec: the startup phase of a Console.  The process starts with some      *)
(* argument vector; the host constructs a Console (or the subclass          *)
(* MyProgram of example.py) and then calls its startup methods.             *)

MaxArgs == 2

MaxHostCalls == 2

arg_help == <<"-", "-", "h", "e", "l", "p">>
arg_h == <<"-", "h">>
arg_custom == <<"-", "-", "c", "u", "s", "t", "o", "m">>
arg_example == <<"-", "-", "e", "x", "a", "m", "p", "l", "e">>
arg_log == <<"-", "-", "l", "o", "g">>
arg_v == <<"-", "v">>

\* The flag that Console.terminal_init registers, which takes a float
arg_test == <<"-", "-", "t", "e", "s", "t">>

ArgTokens ==
    {arg_help, arg_h, arg_custom, arg_example, tok_42, arg_log, arg_v,
     arg_test}

ArgLines(maxlen) == UNION {[1..n -> ArgTokens] : n \in 0..maxlen}

\* The flags a host registers itself when it processes the startup line
\* manually: the same two that MyProgram.terminal_init registers.
HostCustom == Registration(<<"c", "u", "s", "t", "o", "m">>, <<"c">>, FLAG_INPUT_IGNORE,
                           Callable("custom_method"))
HostExample == Registration(<<"-", "-", "e", "x", "a", "m", "p", "l", "e">>, <<"-", "e">>, FLAG_INPUT_INT, None)

Init ==
    /\ \E body \in ArgLines(MaxArgs) : argv = <<program_name>> \o body
    /\ ConsoleNew
    /\ command = None
    /\ input = <<>>
    /\ is_command = FALSE
    /\ ParserNew
    /\ LoopNew

Called(op, r) == [op |-> op, raised |-> r.raised]

\* The constructor: Console(...) with any of its two switches, or MyProgram()
ConsoleInit ==
    /\ phase = "new"
    /\ \E class \in {"Console", "MyProgram"},
          disable_default_flags \in BOOLEAN,
          disable_auto_process_flags \in BOOLEAN :
          /\ class = "MyProgram" =>
                ~disable_default_flags /\ ~disable_auto_process_flags
          /\ LET r == ConsoleConstructor(Self, class, disable_default_flags,
                                         disable_auto_process_flags)
             IN /\ SetSelf(r.self)
                /\ phase' = IF r.exited THEN "exited"
                            ELSE IF r.raised # NoException THEN "failed"
                            ELSE "ready"
                /\ last_call' = Called("Console", r)
    /\ UNCHANGED <<argv, ncalls, parser_vars, loop_vars>>

\* A method the host calls on the constructed Console: the object afterwards,
\* the exception the call raised, and the process gone if it exited.
HostCall(op, r) ==
    /\ SetSelf(r.self)
    /\ phase' = IF r.exited THEN "exited" ELSE "ready"
    /\ last_call' = Called(op, r)
    /\ ncalls' = ncalls + 1
    /\ UNCHANGED <<argv, parser_vars, loop_vars>>

HostTerminalAddFlag ==
    /\ phase = "ready" /\ ncalls < MaxHostCalls
    /\ \E reg \in {HostCustom} :
          HostCall("terminal_add_flag",
                   terminal_add_flag(Self, reg.longf, reg.shortf,
                                     reg.description, reg.input, reg.method))

HostTerminalQuickaddFlags ==
    /\ phase = "ready" /\ ncalls < MaxHostCalls
    /\ HostCall("terminal_quickadd_flags",
                terminal_quickadd_flags(Self, <<<<"t", "e", "s", "t">>, <<"m", "o", "r", "e">>>>, <<"?", "m">>))

\* c.terminal.add_flag(...): Command.add_flag on the public attribute
HostTerminalDotAddFlag ==
    /\ phase = "ready" /\ ncalls < MaxHostCalls
    /\ \E reg \in {HostExample} :
          HostCall("terminal.add_flag",
                   terminal_dot_add_flag(Self, reg.longf, reg.shortf,
                                         reg.description, reg.input, reg.method))

HostTerminalProcessFlags ==
    /\ phase = "ready" /\ ncalls < MaxHostCalls
    /\ HostCall("terminal_process_flags", terminal_process_flags(Self))

Next ==
    \/ ConsoleInit
    \/ HostTerminalAddFlag
    \/ HostTerminalQuickaddFlags
    \/ HostTerminalDotAddFlag
    \/ HostTerminalProcessFlags

Spec == Init /\ [][Next]_vars

---------------------------------------------------------------------------
(* Claims about the startup phase, checked under Spec *)

HostCalled(op) == ncalls' = ncalls + 1 /\ last_call'.op = op

\* C8: the startup guard _processed_flag_options never goes back from true
\* to false, and every call of terminal_process_flags made when it is already
\* true raises CallError, parses nothing and invokes no flag handler.
C8_OneShotGuard ==
    [][/\ _processed_flag_options => _processed_flag_options'
       /\ (_processed_flag_options /\ HostCalled("terminal_process_flags"))
            => /\ last_call'.raised.type = "CallError"
               /\ calls' = calls
               /\ terminal_active_flags' = terminal_active_flags
               /\ terminal_additional_args' = terminal_additional_args
               /\ _DI_settings' = _DI_settings
               /\ current_command_name' = current_command_name
               /\ current_flag_name' = current_flag_name
               /\ current_flag_input' = current_flag_input
               /\ phase' = phase]_vars

\* terminal_process_flags called on a Console whose startup line is already
\* processed, and refused
C8_Witness ==
    /\ _processed_flag_options
    /\ last_call.op = "terminal_process_flags"
    /\ last_call.raised.type = "CallError"
    /\ calls # <<>>

\* C9 as stated: once the startup flags have been processed, every attempt
\* to add a flag to the terminal Command (terminal_add_flag,
\* terminal_quickadd_flags, add_flag on the terminal Command) fails with
\* CallError and leaves the terminal's registry unchanged.
C9_NoTerminalFlagAfterProcessing ==
    [][(/\ _processed_flag_options
        /\ \/ HostCalled("terminal_add_flag")
           \/ HostCalled("terminal_quickadd_flags")
           \/ HostCalled("terminal.add_flag"))
         => /\ last_call'.raised.type = "CallError"
            /\ terminal' = terminal]_vars

HelpActive ==
    \E k \in 1..Len(terminal_active_flags) :
        terminal_active_flags[k].longf = arg_help

\* C10: if --help or -h is among the active startup flags, wherever it
\* stands on the startup line, the help handler is invoked and the process
\* exits without any other startup flag handler having been invoked; and
\* --help or -h anywhere on a processed startup line is among the active
\* flags, unless the line holds --example or --test, the flags of these
\* lines that take the token after them as their input.
C10_HelpShortCircuits ==
    /\ (_processed_flag_options /\ HelpActive) =>
          /\ phase = "exited"
          /\ Len(calls) = 1
          /\ calls[1].handler = _command_help
    /\ (/\ _processed_flag_options
        /\ \E i \in 2..Len(argv) : argv[i] \in {arg_help, arg_h}
        /\ ~(\E i \in 2..Len(argv) : argv[i] \in {arg_example, arg_test}))
          => HelpActive

\* The startup line '--custom -h': help stands last, the process has exited
\* and the handler of --custom was not invoked
C10_Witness ==
    /\ phase = "exited"
    /\ argv = <<program_name, arg_custom, arg_h>>
    /\ Len(terminal_active_flags) = 2
    /\ terminal_active_flags[1].longf = arg_custom
    /\ terminal_active_flags[1].method = Callable("custom_method")
    /\ terminal_active_flags[2].longf = arg_help
    /\ calls = <<[handler |-> _command_help,
                  current_command_name |-> None,
                  current_flag_name |-> None,
                  current_flag_input |-> NoneInput,
                  _processed_flag_options |-> TRUE,
                  _DI_settings |-> _DI_settings]>>

\* C11: after startup processing without a help flag, exactly one handler
\* was invoked per activation, in active-flag order (the flag's own handler
\* if it has one, otherwise default_flag_handler), and at each invocation
\* current_flag_name was the activation's long name, current_flag_input its
\* coerced value and current_command_name 'TERMINAL'.
C11_OneHandlerPerActivation ==
    (_processed_flag_options /\ ~HelpActive) =>
        /\ Len(calls) = Len(terminal_active_flags)
        /\ \A k \in 1..Len(terminal_active_flags) :
              LET flag == terminal_active_flags[k] IN
              /\ calls[k].handler = IF flag.method = None
                                    THEN default_flag_handler
                                    ELSE flag.method
              /\ calls[k].current_flag_name = flag.longf
              /\ calls[k].current_flag_input = flag.input
              /\ calls[k].current_command_name = TERMINAL
              /\ flag.longf = arg_example =>
                    flag.input = [type |-> "int", value |-> 42]

\* The startup line '--custom -v': the handler of --custom, then
\* default_flag_handler for --verbose
C11_Witness ==
    /\ phase = "ready"
    /\ argv = <<program_name, arg_custom, arg_v>>
    /\ Len(terminal_active_flags) = 2
    /\ Len(calls) = 2
    /\ calls[1].handler = Callable("custom_method")
    /\ calls[1].current_flag_name = arg_custom
    /\ calls[2].handler = default_flag_handler
    /\ calls[2].current_flag_name = <<"-", "-", "v", "e", "r", "b", "o", "s", "e">>
    /\ calls[2].current_command_name = TERMINAL

\* C32: the one-shot guard of the startup phase becomes true only after
\* the startup line is parsed and the handler of every activation has been
\* invoked: every startup flag handler is invoked with the guard still
\* false.
C32_GuardSetAfterHandlers ==
    \A k \in 1..Len(calls) : ~calls[k]._processed_flag_options

\* C38: when the startup parse has raised InputError, terminal_active_flags
\* and terminal_additional_args are the empty lists they were and the
\* one-shot guard is set; the guard, once set, stays set; and a
\* terminal_process_flags or terminal_add_flag call that follows raises
\* CallError and leaves the startup state as it was.
C38_NoRetryAfterInputError ==
    /\ [](last_call.raised.type = "InputError"
             => /\ last_call.op \in {"Console", "terminal_process_flags"}
                /\ terminal_active_flags = <<>>
                /\ terminal_additional_args = <<>>
                /\ calls = <<>>
                /\ _processed_flag_options)
    /\ [][/\ _processed_flag_options => _processed_flag_options'
          /\ (/\ last_call.raised.type = "InputError"
              /\ last_call'.op \in {"terminal_process_flags",
                                    "terminal_add_flag"})
                => /\ last_call'.raised.type = "CallError"
                   /\ UNCHANGED <<terminal, terminal_active_flags,
                                  terminal_additional_args, calls,
                                  _processed_flag_options>>]_vars

\* Console(disable_auto_process_flags=True) started with '--test' alone:
\* terminal_process_flags has raised InputError for the missing float, and
\* the terminal_process_flags call after it has raised CallError
C38_Witness ==
    /\ argv = <<program_name, arg_test>>
    /\ ncalls = 2
    /\ last_call.op = "terminal_process_flags"
    /\ last_call.raised.type = "CallError"
    /\ _processed_flag_options
    /\ terminal_active_flags = <<>>
    /\ calls = <<>>

\* The flag named longf is among the active startup flags
StartupActive(longf) ==
    \E k \in 1..Len(terminal_active_flags) :
        terminal_active_flags[k].longf = longf

\* The routing level that the flags --log and --log-stdout ask for
LogLevelAsked ==
    IF StartupActive(arg_log) THEN DI_LOG ELSE DI_STDOUT_LOG

\* C26: after the startup line is processed with --log among the active
\* flags (and no --log-stdout), the channel of every active --verbose,
\* --debug or --verbose-debug flag is routed to the logfile only, in
\* whatever order the flags stood on the line; with --log-stdout instead,
\* to both; and every flag handler was invoked with the routing levels the
\* Console ends up with.
C26_LogRoutesActiveChannels ==
    (/\ _processed_flag_options
     /\ phase = "ready"
     /\ StartupActive(arg_log) # StartupActive(<<"-", "-", "l", "o", "g", "-", "s", "t", "d", "o", "u", "t">>))
      => /\ StartupActive(<<"-", "-", "v", "e", "r", "b", "o", "s", "e">>)
               => _DI_settings.verbose = LogLevelAsked
         /\ StartupActive(<<"-", "-", "d", "e", "b", "u", "g">>)
               => _DI_settings.debug = LogLevelAsked
         /\ StartupActive(<<"-", "-", "v", "e", "r", "b", "o", "s", "e", "-", "d", "e", "b", "u", "g">>)
               => _DI_settings.verbosedebug = LogLevelAsked
         /\ \A k \in 1..Len(calls) : calls[k]._DI_settings = _DI_settings

---------------------------------------------------------------------------
(* Console_Program: the console loop.  Console.console_start constructs a   *)
(* Console_Program and either starts it as a thread or calls its run in    *)
(* the caller's context.  One step of a loop is the part of an iteration   *)
(* up to the next handler it calls, or the return of that handler.  The    *)
(* line editor Console_Input is the loop's input collaborator: get_input   *)
(* hands over the line the operator entered.                               *)

\* str.split(): the tokens of s, separated by runs of blanks
RECURSIVE SplitFrom(_, _, _)
SplitFrom(s, i, cur) ==
    IF i > Len(s)
    THEN IF cur = <<>> THEN <<>> ELSE <<cur>>
    ELSE IF s[i] = " "
    THEN IF cur = <<>> THEN SplitFrom(s, i + 1, <<>>)
         ELSE <<cur>> \o SplitFrom(s, i + 1, <<>>)
    ELSE SplitFrom(s, i + 1, Append(cur, s[i]))

split(s) == SplitFrom(s, 1, <<>>)

\* _precheck_input on a str
_precheck_input_str(inp) == split(inp)

\* parser.parse_line(command, input_string) as run calls it, is_command left
\* at its default True
parse_console_line(cmd, input_string) ==
    Loop(cmd.available_flags,
         [inputlist |-> Tail(_precheck_input_str(input_string)),
          index |-> 0,
          active_flags |-> <<>>,
          additional_args |-> <<>>,
          raised |-> NoException])

\* FindCommand with the loop variable used after a loop that matched
\* nothing: it is left at the last command of the registry
FindCommandLeaking(commands, token) ==
    IF \E i \in 1..Len(commands) : commands[i].command_name = token
    THEN CHOOSE i \in 1..Len(commands) :
            /\ commands[i].command_name = token
            /\ \A j \in 1..(i - 1) : commands[j].command_name # token
    ELSE Len(commands)

\* The loop of lines 827-831: the position of the first command of the
\* registry whose name is the token, 0 if there is none
FindCommand(commands, token) ==
    IF \E i \in 1..Len(commands) : commands[i].command_name = token
    THEN CHOOSE i \in 1..Len(commands) :
            /\ commands[i].command_name = token
            /\ \A j \in 1..(i - 1) : commands[j].command_name # token
    ELSE 0

\* FindHelp looking at the first activation only
FindHelpFirstOnly(active) ==
    IF active # <<>> /\ active[1].longf = <<"-", "-", "h", "e", "l", "p">>
    THEN 1 ELSE 0

\* The loop of lines 839-842: the position of the --help activation, 0 if
\* there is none
FindHelp(active) ==
    IF \E i \in 1..Len(active) : active[i].longf = <<"-", "-", "h", "e", "l", "p">>
    THEN CHOOSE i \in 1..Len(active) :
            /\ active[i].longf = <<"-", "-", "h", "e", "l", "p">>
            /\ \A j \in 1..(i - 1) : active[j].longf # <<"-", "-", "h", "e", "l", "p">>
    ELSE 0

\* What a handler can read of the Console's dispatch context at the moment
\* the loop calls it (the step that makes the call has set the flag context)
HandlerCall(kind, handler) ==
    [kind |-> kind,
     handler |-> handler,
     current_command_name |-> current_command_name,
     current_command_active_flags |-> current_command_active_flags,
     current_command_additional_args |-> current_command_additional_args,
     current_flag_name |-> current_flag_name',
     current_flag_input |-> current_flag_input']

\* The Console's variables that the loop leaves alone
console_frame == <<argv, phase, terminal, terminal_active_flags,
                   terminal_additional_args, _processed_flag_options,
                   _DI_settings, display_information_settings,
                   _available_commands, current_command_name,
                   current_command_active_flags,
                   current_command_additional_args, calls, ncalls>>

SetLoop(w, L) == loops' = [loops EXCEPT ![w] = L]

\* The loop reads a line: what the iteration starts from (lines 821-825).
\* The parser object and the diagnostics written are kept, the rest is of
\* the new line.
AtLine(L, input_list) ==
    [L EXCEPT !.input_list = input_list, !.command = 0, !.running = "none",
              !.map = 0, !.trace = <<>>]

\* WithParser for a parse_line that does not replace what the parser held:
\* the new activations and arguments are added behind it
WithParserAccumulating(L, P) ==
    [L EXCEPT !.active_flags = @ \o P.active_flags,
              !.additional_args = @ \o P.additional_args]

\* The parser object after a parse_line call that left it in state P
WithParser(L, P) ==
    [L EXCEPT !.active_flags = P.active_flags,
              !.additional_args = P.additional_args]

\* The call of a handler begins: the loop is inside it until it returns
InHandler(L, kind, k, handler) ==
    [L EXCEPT !.pc = "handler", !.running = kind, !.map = k,
              !.trace = Append(@, HandlerCall(kind, handler))]

\* Escapes calling the cleanup hook before the exception is raised again
EscapesAfterCleanup(L, exc) ==
    [L EXCEPT !.pc = "raised", !.running = "none", !.raised = exc,
              !.cleanups = @ + 1]

\* An exception other than KeyboardInterrupt and SystemExit leaves run:
\* lines 866-868 (console.clean() closes the log file, then the exception
\* is raised again)
Escapes(L, exc) ==
    [L EXCEPT !.pc = "raised", !.running = "none", !.raised = exc]

SystemExit == [type |-> "SystemExit"]

\* Interrupted leaving the cleanup hook out
InterruptedWithoutCleanup(L, sig) ==
    [L EXCEPT !.pc = "raised", !.running = "none", !.signal = sig,
              !.raised = SystemExit]

\* Lines 861-865: KeyboardInterrupt or SystemExit raised inside the try of
\* an iteration: the cleanup hook is called, a verbose message is relayed
\* and SystemExit is raised out of run
Interrupted(L, sig) ==
    [L EXCEPT !.pc = "raised", !.running = "none", !.signal = sig,
              !.cleanups = @ + 1, !.raised = SystemExit]

NotCallable == TypeError("'NoneType' object is not callable")

\* DispatchFrom calling the primary handler after the first flag handler
DispatchFromFirstFlagOnly(w, L, k) ==
    IF k > Len(L.active_flags) \/ k > 1
    THEN /\ UNCHANGED <<current_flag_name, current_flag_input>>
         /\ SetLoop(w, InHandler(L, "primary", 0,
                                 _available_commands[L.command].method))
    ELSE /\ current_flag_input' = L.active_flags[k].input
         /\ current_flag_name' = L.active_flags[k].longf
         /\ IF L.active_flags[k].method = None
            THEN SetLoop(w, Escapes(L, NotCallable))
            ELSE SetLoop(w, InHandler(L, "flag", k, L.active_flags[k].method))

\* Lines 847-852 from the activation at position k on, up to the next
\* call: the handler of that activation (its method called as it is, also
\* when it is None), or the primary handler once the activations are done.
DispatchFrom(w, L, k) ==
    IF k > Len(L.active_flags)
    THEN /\ UNCHANGED <<current_flag_name, current_flag_input>>
         /\ SetLoop(w, InHandler(L, "primary", 0,
                                 _available_commands[L.command].method))
    ELSE /\ current_flag_input' = L.active_flags[k].input
         /\ current_flag_name' = L.active_flags[k].longf
         /\ IF L.active_flags[k].method = None
            THEN SetLoop(w, Escapes(L, NotCallable))
            ELSE SetLoop(w, InHandler(L, "flag", k, L.active_flags[k].method))

\* ExitLine comparing against no name
ExitLineNever(input_list) == FALSE

\* Line 853: the line just executed is the exit command's
ExitLine(input_list) == input_list[1] = <<"e", "x", "i", "t">>

\* Lines 870-871 and 817: an iteration that no continue and no exception
\* has cut short ends inside the while loop with the call of the cleanup
\* hook (Console.console_cleanup, a callable); then the loop condition is
\* tested.
IterationEnds(L, do_loop) ==
    [L EXCEPT !.pc = IF do_loop THEN "read" ELSE "done",
              !.running = "none", !.do_loop = do_loop,
              !.cleanups = @ + 1]

---------------------------------------------------------------------------
(* LoopSpec: a constructed Console with the commands of a host, the         *)
(* caller's console_start calls and the console loops they start            *)

MaxLines == 2

\* " ".join(tokens)
RECURSIVE Joined(_)
Joined(tokens) ==
    IF tokens = <<>> THEN <<>>
    ELSE IF Len(tokens) = 1 THEN tokens[1]
    ELSE tokens[1] \o <<" ">> \o Joined(Tail(tokens))

word_exit == <<"e", "x", "i", "t">>
word_build == <<"b", "u", "i", "l", "d">>
word_example == <<"e", "x", "a", "m", "p", "l", "e">>
word_frobnicate == <<"f", "r", "o", "b", "n", "i", "c", "a", "t", "e">>
word_extra == <<"e", "x", "t", "r", "a">>
tok_j == <<"-", "j">>
tok_jobs == <<"-", "-", "j", "o", "b", "s">>
tok_q == <<"-", "q">>
tok_quiet == <<"-", "-", "q", "u", "i", "e", "t">>
tok_f == <<"-", "f">>
tok_4 == <<"4">>

\* The lines the operator enters
ConsoleInputs ==
    {<<" ", " ">>,
     Joined(<<word_frobnicate>>),
     Joined(<<word_exit>>),
     Joined(<<word_exit, arg_help>>),
     <<" ">> \o Joined(<<word_build, tok_j, tok_4, word_extra>>),
     Joined(<<word_build, tok_q, tok_j, tok_4, tok_quiet>>),
     Joined(<<word_build, tok_q, arg_h, tok_j, tok_4>>),
     Joined(<<word_build, tok_q, tok_j>>),
     Joined(<<word_example, tok_f>>)}

\* The fields of a Console at line 446 of its constructor
NewConsole ==
    [terminal |-> None,
     terminal_active_flags |-> <<>>,
     terminal_additional_args |-> <<>>,
     _processed_flag_options |-> FALSE,
     _DI_settings |-> [verbose |-> DI_IGNORE, debug |-> DI_IGNORE,
                       verbosedebug |-> DI_IGNORE],
     display_information_settings |-> NoAttribute,
     _available_commands |-> <<>>,
     current_command_name |-> None,
     current_command_active_flags |-> <<>>,
     current_command_additional_args |-> <<>>,
     current_flag_name |-> None,
     current_flag_input |-> NoneInput,
     calls |-> <<>>]

\* command = c.console_add_command(name, method, ...) followed by
\* command.add_flag(...) for each of regs
AddCommand(self, name, method, regs) ==
    [self EXCEPT !._available_commands =
        Append(@, Registered(Command(name, method, <<"d">>, <<"u">>).command,
                             regs))]

\* The commands of the host: 'example' of example.py, whose flag has no
\* handler, and 'build', whose flags --jobs (int) and --quiet have one
HostCommands(self) ==
    AddCommand(
        AddCommand(self, word_example, Callable("custom_command_method"),
                   <<Registration(<<"e", "x", "a", "m", "p", "l", "e", "-", "f", "l", "a", "g">>,
                                  <<"f">>, FLAG_INPUT_IGNORE, None)>>),
        word_build, Callable("build"),
        <<Registration(<<"j", "o", "b", "s">>, <<"j">>, FLAG_INPUT_INT,
                       Callable("on_jobs")),
          Registration(<<"q", "u", "i", "e", "t">>, <<"q">>, FLAG_INPUT_IGNORE,
                       Callable("on_quiet"))>>)

\* The host's console_add_command and add_flag calls after a constructor
\* that returned
AfterConstructor(r) ==
    IF r.raised # NoException THEN r.self ELSE HostCommands(r.self)

\* The process after c = Console(...) or c = MyProgram() and the host's
\* console_add_command and add_flag calls, started without arguments or,
\* for MyProgram, with the startup line --custom --example, whose flag
\* --example lacks its input: the constructor has raised, there is no
\* Console to register commands on or to start
LoopInit ==
    /\ \E class \in {"Console", "MyProgram"},
          disable_auto_process_flags \in BOOLEAN,
          body \in {<<>>, <<arg_custom, arg_example>>} :
          /\ class = "MyProgram" => ~disable_auto_process_flags
          /\ class = "Console" => body = <<>>
          /\ argv = <<program_name>> \o body
          /\ LET r == ConsoleConstructor(NewConsole, class, FALSE,
                                         disable_auto_process_flags)
                 c == AfterConstructor(r)
             IN /\ phase = (IF r.raised # NoException THEN "failed"
                            ELSE "ready")
                /\ terminal = c.terminal
                /\ terminal_active_flags = c.terminal_active_flags
                /\ terminal_additional_args = c.terminal_additional_args
                /\ _processed_flag_options = c._processed_flag_options
                /\ _DI_settings = c._DI_settings
                /\ display_information_settings = c.display_information_settings
                /\ _available_commands = c._available_commands
                /\ current_command_name = c.current_command_name
                /\ current_command_active_flags = c.current_command_active_flags
                /\ current_command_additional_args = c.current_command_additional_args
                /\ current_flag_name = c.current_flag_name
                /\ current_flag_input = c.current_flag_input
                /\ calls = c.calls
                /\ last_call = Called("Console", r)
    /\ ncalls = 0
    /\ command = None
    /\ input = <<>>
    /\ is_command = FALSE
    /\ ParserNew
    /\ LoopNew

\* Console.console_start(threaded, daemon) called from the caller's
\* context (daemon only decides whether the interpreter waits for the
\* thread when the process ends).  Reading self.display_information_settings fails on a Console
\* whose startup line was never processed; otherwise a Console_Program is
\* constructed and either started as a thread, the call returning at once
\* with no value, or its run is called in the caller's context.
ConsoleStart ==
    /\ phase = "ready"
    /\ caller.pc = "ready"
    /\ \E w \in LoopIds, threaded \in BOOLEAN :
          /\ loops[w].pc = "unstarted"
          /\ \A v \in LoopIds : v < w => loops[v].pc # "unstarted"
          /\ IF display_information_settings = NoAttribute
             THEN /\ last_call' = [op |-> "console_start",
                                   raised |-> AttributeError("display_information_settings")]
                  /\ caller' = [pc |-> "failed", loop |-> 0]
                  /\ UNCHANGED <<loops, shutdown>>
             ELSE /\ SetLoop(w, [NoLoop EXCEPT !.pc = "read",
                                               !.is_thread = threaded])
                  /\ last_call' = [op |-> "console_start", raised |-> NoException]
                  /\ IF threaded
                     THEN /\ shutdown' = None
                          /\ UNCHANGED caller
                     ELSE /\ caller' = [pc |-> "blocked", loop |-> w]
                          /\ UNCHANGED shutdown
    /\ UNCHANGED <<console_frame, current_flag_name, current_flag_input,
                   parser_vars, cancel_requested, nread, console_command_name,
                   console_command_active_flags,
                   console_command_additional_args>>

\* console_start(threaded=False): program_console.run() has ended, by
\* returning or by an exception that the caller now gets
ConsoleStartReturn ==
    /\ caller.pc = "blocked"
    /\ loops[caller.loop].pc \in {"done", "raised"}
    /\ IF loops[caller.loop].pc = "done"
       THEN /\ caller' = [pc |-> "ready", loop |-> 0]
            /\ shutdown' = None
            /\ UNCHANGED last_call
       ELSE /\ caller' = [pc |-> "failed", loop |-> 0]
            /\ last_call' = [op |-> "console_start",
                             raised |-> loops[caller.loop].raised]
            /\ UNCHANGED shutdown
    /\ UNCHANGED <<console_frame, current_flag_name, current_flag_input,
                   parser_vars, loops, cancel_requested, nread,
                   console_command_name, console_command_active_flags,
                   console_command_additional_args>>

\* shutdown.set() of example.py:55 on what console_start returned
ShutdownSet ==
    /\ caller.pc = "ready"
    /\ shutdown = None
    /\ cancel_requested' = TRUE
    /\ caller' = [pc |-> "failed", loop |-> 0]
    /\ last_call' = [op |-> "shutdown.set",
                     raised |-> AttributeError("'NoneType' object has no attribute 'set'")]
    /\ UNCHANGED <<console_frame, current_flag_name, current_flag_input,
                   parser_vars, loops, shutdown, nread, console_command_name,
                   console_command_active_flags,
                   console_command_additional_args>>

\* c.console_add_command("frobnicate", ...) called from the caller's
\* context while a console loop runs in its thread: nothing in
\* console_add_command or in run keeps the call from appending to the list
\* that the loop goes through at its next line.  The host adds the command
\* once.
CallerAddsCommand ==
    /\ phase = "ready"
    /\ caller.pc = "ready"
    /\ \E w \in LoopIds : loops[w].pc \in {"read", "handler"}
    /\ FindCommand(_available_commands, word_frobnicate) = 0
    /\ LET r == console_add_command(Self, word_frobnicate,
                                    Callable("frobnicate"), <<"d">>, <<>>)
       IN /\ _available_commands' = r.self._available_commands
          /\ last_call' = Called("console_add_command", r)
    /\ UNCHANGED <<argv, phase, terminal, terminal_active_flags,
                   terminal_additional_args, _processed_flag_options,
                   _DI_settings, display_information_settings,
                   current_command_name, current_command_active_flags,
                   current_command_additional_args, calls, ncalls,
                   current_flag_name, current_flag_input, parser_vars,
                   loop_vars>>

\* What the steps of a loop leave alone besides the loops and the flag
\* context
loop_frame == <<console_frame, last_call, parser_vars, caller, shutdown,
                cancel_requested>>

\* get_input returns in loop w
Reads(w) == loops[w].pc = "read" /\ nread < MaxLines /\ nread' = nread + 1

\* Lines 823-826: a line without a token
ReadEmptyLine(w) ==
    /\ Reads(w)
    /\ \E input_string \in ConsoleInputs :
          /\ split(input_string) = <<>>
          /\ SetLoop(w, AtLine(loops[w], <<>>))
    /\ UNCHANGED <<loop_frame, current_flag_name, current_flag_input,
                   console_command_name, console_command_active_flags,
                   console_command_additional_args>>

\* Lines 827-831, 856-859 and 870-871: no command has the name of the first
\* token
ReadUnknownCommand(w) ==
    /\ Reads(w)
    /\ \E input_string \in ConsoleInputs :
          LET input_list == split(input_string) IN
          /\ input_list # <<>>
          /\ FindCommand(_available_commands, input_list[1]) = 0
          /\ SetLoop(w, IterationEnds(
                    [AtLine(loops[w], input_list) EXCEPT
                        !.unknown = Append(@, input_list[1])], TRUE))
    /\ UNCHANGED <<loop_frame, current_flag_name, current_flag_input,
                   console_command_name, console_command_active_flags,
                   console_command_additional_args>>

\* The line names the command at position c and parse_line has left the
\* parser in state P
Parsed(input_string, c, P) ==
    /\ split(input_string) # <<>>
    /\ c = FindCommand(_available_commands, split(input_string)[1])
    /\ c # 0
    /\ P = parse_console_line(_available_commands[c], input_string)

\* Line 830 raises InputError
ReadMalformedLine(w) ==
    /\ Reads(w)
    /\ \E input_string \in ConsoleInputs, c \in 1..Len(_available_commands) :
          LET P == parse_console_line(_available_commands[c], input_string) IN
          /\ Parsed(input_string, c, P)
          /\ P.raised # NoException
          /\ SetLoop(w, Escapes(WithParser(
                    [AtLine(loops[w], split(input_string)) EXCEPT !.command = c],
                    P), P.raised))
    /\ UNCHANGED <<loop_frame, current_flag_name, current_flag_input,
                   console_command_name, console_command_active_flags,
                   console_command_additional_args>>

NotImplementedError == [type |-> "NotImplementedError"]

\* Line 820 raises: the key that get_input classifies (lines 952-977) is
\* END_OF_TRANSMISSION, for which it raises NotImplementedError (lines
\* 966-967) where ENTER returns the line (lines 973-974).  The bare except
\* of run closes the log and raises it again (lines 866-868).  No line is
\* dispatched: the loop has no tokens and no command, its parser is as the
\* line before left it.
ReadEndOfTransmission(w) ==
    /\ Reads(w)
    /\ SetLoop(w, Escapes(AtLine(loops[w], <<>>), NotImplementedError))
    /\ UNCHANGED <<loop_frame, current_flag_name, current_flag_input,
                   console_command_name, console_command_active_flags,
                   console_command_additional_args>>

\* Lines 834-836
SetConsoleCommand(c, P) ==
    /\ console_command_active_flags' = P.active_flags
    /\ console_command_additional_args' = P.additional_args
    /\ console_command_name' = _available_commands[c].command_name

\* Lines 833-845: --help is among the activations, its handler is called
ReadHelpLine(w) ==
    /\ Reads(w)
    /\ \E input_string \in ConsoleInputs, c \in 1..Len(_available_commands) :
          LET P == parse_console_line(_available_commands[c], input_string) IN
          /\ Parsed(input_string, c, P)
          /\ P.raised = NoException
          /\ FindHelp(P.active_flags) # 0
          /\ SetConsoleCommand(c, P)
          /\ UNCHANGED <<current_flag_name, current_flag_input>>
          /\ SetLoop(w, InHandler(WithParser(
                    [AtLine(loops[w], split(input_string)) EXCEPT !.command = c],
                    P),
                    "help", FindHelp(P.active_flags),
                    P.active_flags[FindHelp(P.active_flags)].method))
    /\ UNCHANGED loop_frame

\* Lines 833-852 up to the first call: no --help among the activations
ReadCommandLine(w) ==
    /\ Reads(w)
    /\ \E input_string \in ConsoleInputs, c \in 1..Len(_available_commands) :
          LET P == parse_console_line(_available_commands[c], input_string) IN
          /\ Parsed(input_string, c, P)
          /\ P.raised = NoException
          /\ FindHelp(P.active_flags) = 0
          /\ SetConsoleCommand(c, P)
          /\ DispatchFrom(w, WithParser(
                    [AtLine(loops[w], split(input_string)) EXCEPT !.command = c],
                    P), 1)
    /\ UNCHANGED loop_frame

\* Line 845: the help handler has returned, continue
HelpReturn(w) ==
    /\ loops[w].pc = "handler" /\ loops[w].running = "help"
    /\ SetLoop(w, [loops[w] EXCEPT !.pc = "read", !.running = "none"])
    /\ UNCHANGED <<loop_frame, nread, current_flag_name, current_flag_input,
                   console_command_name, console_command_active_flags,
                   console_command_additional_args>>

\* Lines 847-852: a flag handler has returned
FlagHandlerReturn(w) ==
    /\ loops[w].pc = "handler" /\ loops[w].running = "flag"
    /\ DispatchFrom(w, loops[w], loops[w].map + 1)
    /\ UNCHANGED <<loop_frame, nread, console_command_name,
                   console_command_active_flags,
                   console_command_additional_args>>

\* Lines 852-854, 870-871 and 817: the primary handler has returned; the
\* cleanup hook is called, and after the exit command the loop ends
\* What a handler raises when it fails: an exception that is neither
\* KeyboardInterrupt nor SystemExit
HandlerError == [type |-> "Exception"]

\* Lines 843, 850 and 852, 866-868: the handler that loop w is running (a
\* flag handler, the help handler or the primary handler) raises; the bare
\* except of run closes the log and raises the exception again
HandlerRaises(w) ==
    /\ loops[w].pc = "handler"
    /\ SetLoop(w, Escapes(loops[w], HandlerError))
    /\ UNCHANGED <<loop_frame, nread, current_flag_name, current_flag_input,
                   console_command_name, console_command_active_flags,
                   console_command_additional_args>>

PrimaryReturn(w) ==
    /\ loops[w].pc = "handler" /\ loops[w].running = "primary"
    /\ SetLoop(w, IterationEnds(loops[w], ~ExitLine(loops[w].input_list)))
    /\ UNCHANGED <<loop_frame, nread, current_flag_name, current_flag_input,
                   console_command_name, console_command_active_flags,
                   console_command_additional_args>>

\* Lines 818-865: KeyboardInterrupt or SystemExit is raised while the
\* iteration is inside its try.  A handler can raise either of them in any
\* thread; while get_input waits for a line, the interpreter raises
\* KeyboardInterrupt, and only in the main thread.
Interrupt(w) ==
    /\ loops[w].pc \in {"read", "handler"}
    /\ \E sig \in {"KeyboardInterrupt", "SystemExit"} :
          /\ loops[w].pc = "read" =>
                sig = "KeyboardInterrupt" /\ ~loops[w].is_thread
          /\ SetLoop(w, Interrupted(loops[w], sig))
    /\ UNCHANGED <<loop_frame, nread, current_flag_name, current_flag_input,
                   console_command_name, console_command_active_flags,
                   console_command_additional_args>>

LoopStep(w) ==
    \/ ReadEmptyLine(w)
    \/ ReadUnknownCommand(w)
    \/ ReadMalformedLine(w)
    \/ ReadHelpLine(w)
    \/ ReadCommandLine(w)
    \/ ReadEndOfTransmission(w)
    \/ HelpReturn(w)
    \/ FlagHandlerReturn(w)
    \/ PrimaryReturn(w)
    \/ HandlerRaises(w)
    \/ Interrupt(w)

LoopNext ==
    \/ ConsoleStart
    \/ ConsoleStartReturn
    \/ ShutdownSet
    \/ \E w \in LoopIds : LoopStep(w)

LoopSpec == LoopInit /\ [][LoopNext]_vars

---------------------------------------------------------------------------
(* Claims about the console loop, checked under LoopSpec *)

\* Loop w is at a line that named a registered command and was parsed, and
\* neither KeyboardInterrupt or SystemExit nor an exception raised by a
\* handler has cut its dispatch short
Dispatching(w) ==
    /\ loops[w].command # 0
    /\ loops[w].raised.type # "InputError"
    /\ loops[w].signal = "none"
    /\ loops[w].raised # HandlerError

HelpAmong(flags) == \E k \in 1..Len(flags) : flags[k].longf = arg_help

AllHandled(flags) == \A k \in 1..Len(flags) : flags[k].method # None

\* C12: for every console line that names a registered command, has no help
\* flag and whose active flags all carry a handler, the handlers invoked so
\* far are those of the active flags, once each and in active-flag order,
\* each with current_flag_name and current_flag_input of its activation,
\* followed by the command's primary handler, which is invoked once, only
\* after the last flag handler has returned; when the line is done all of
\* them have been invoked.
C12_FlagHandlersThenPrimary ==
    \A w \in LoopIds :
        LET L == loops[w]
            flags == L.active_flags
        IN
        (Dispatching(w) /\ ~HelpAmong(flags) /\ AllHandled(flags)) =>
            /\ Len(L.trace) <= Len(flags) + 1
            /\ \A k \in 1..Len(L.trace) :
                  IF k <= Len(flags)
                  THEN /\ L.trace[k].kind = "flag"
                       /\ L.trace[k].handler = flags[k].method
                       /\ L.trace[k].current_flag_name = flags[k].longf
                       /\ L.trace[k].current_flag_input = flags[k].input
                  ELSE /\ L.trace[k].kind = "primary"
                       /\ L.trace[k].handler =
                             _available_commands[L.command].method
            /\ (L.pc = "handler" /\ L.running = "flag") =>
                  Len(L.trace) = L.map /\ L.map <= Len(flags)
            /\ (L.pc = "handler" /\ L.running = "primary") =>
                  Len(L.trace) = Len(flags) + 1
            /\ L.pc \in {"read", "done"} => Len(L.trace) = Len(flags) + 1
            /\ L.pc # "raised"

\* The line 'build -q -j 4 --quiet' is done: on_jobs with 4, on_quiet, build
C12_Witness ==
    \E w \in LoopIds :
        /\ loops[w].input_list = <<word_build, tok_q, tok_j, tok_4, tok_quiet>>
        /\ loops[w].pc = "read"
        /\ Len(loops[w].trace) = 3
        /\ loops[w].trace[1].handler = Callable("on_jobs")
        /\ loops[w].trace[1].current_flag_name = tok_jobs
        /\ loops[w].trace[1].current_flag_input = [type |-> "int", value |-> 4]
        /\ loops[w].trace[2].handler = Callable("on_quiet")
        /\ loops[w].trace[2].current_flag_name = tok_quiet
        /\ loops[w].trace[3].handler = Callable("build")

\* C13: while the loop runs a matched command's flag handlers and primary
\* handler, the Console's dispatch context describes that line: at every
\* handler call current_command_name is the matched command's name,
\* current_command_active_flags the line's activations and
\* current_command_additional_args its leftover tokens.
C13_DispatchContextOfLine ==
    \A w \in LoopIds :
        Dispatching(w) =>
            \A k \in 1..Len(loops[w].trace) :
                /\ loops[w].trace[k].current_command_name =
                      _available_commands[loops[w].command].command_name
                /\ loops[w].trace[k].current_command_active_flags =
                      loops[w].active_flags
                /\ loops[w].trace[k].current_command_additional_args =
                      loops[w].additional_args

\* C14: in the console loop an active flag registered without a handler is
\* dispatched to default_flag_handler; the remaining flag handlers and the
\* primary handler still run and the loop goes on: no exception leaves it,
\* every flag handler called is the flag's own or default_flag_handler, and
\* when the line is done all handlers and the primary handler were called.
C14_DefaultHandlerInLoop ==
    \A w \in LoopIds :
        LET L == loops[w]
            flags == L.active_flags
        IN
        (Dispatching(w) /\ ~HelpAmong(flags)) =>
            /\ L.pc # "raised"
            /\ \A k \in 1..Len(L.trace) :
                  k <= Len(flags) =>
                     L.trace[k].handler = IF flags[k].method = None
                                          THEN default_flag_handler
                                          ELSE flags[k].method
            /\ L.pc \in {"read", "done"} => Len(L.trace) = Len(flags) + 1

\* C15: if the activations of a console line include --help, for any
\* command including the built-in exit, the help handler is the one handler
\* invoked for the line, exactly once: no other flag handler and not the
\* primary handler; the loop does not end, no exception leaves it, and once
\* the help handler has returned the loop is reading the next line.
C15_HelpInLoop ==
    \A w \in LoopIds :
        LET L == loops[w] IN
        (Dispatching(w) /\ HelpAmong(L.active_flags)) =>
            /\ Len(L.trace) = 1
            /\ L.trace[1].kind = "help"
            /\ L.trace[1].handler = _command_help
            /\ L.pc \in {"handler", "read"}
            /\ L.pc = "handler" => L.running = "help"
            /\ L.do_loop
            /\ L.raised = NoException

\* The line 'exit --help' is done: the help handler was called, the loop
\* reads again
C15_Witness ==
    \E w \in LoopIds :
        /\ loops[w].input_list = <<word_exit, arg_help>>
        /\ loops[w].pc = "read"
        /\ loops[w].do_loop
        /\ Len(loops[w].trace) = 1
        /\ loops[w].trace[1].handler = _command_help
        /\ nread < MaxLines

\* C16: when the first token of a console line equals no registered command
\* name, the loop writes an unknown-command diagnostic for that token, runs
\* no parse and calls no flag handler and no primary handler, leaves the
\* Console (registries, dispatch context, startup guard) unchanged, lets no
\* exception escape and is reading the next line.
C16_UnknownCommandFrame ==
    [][\A w \in LoopIds :
          (/\ loops[w].pc = "read"
           /\ nread' = nread + 1
           /\ loops'[w] # loops[w]
           /\ loops'[w].input_list # <<>>
           /\ \A i \in 1..Len(_available_commands) :
                 _available_commands[i].command_name # loops'[w].input_list[1])
            => /\ loops'[w].unknown =
                     Append(loops[w].unknown, loops'[w].input_list[1])
               /\ loops'[w].trace = <<>>
               /\ loops'[w].active_flags = loops[w].active_flags
               /\ loops'[w].additional_args = loops[w].additional_args
               /\ loops'[w].pc = "read"
               /\ loops'[w].do_loop
               /\ loops'[w].raised = NoException
               /\ UNCHANGED <<console_vars, console_command_name,
                              console_command_active_flags,
                              console_command_additional_args>>]_vars

\* The line 'frobnicate' was read and the loop reads again
C16_Witness ==
    \E w \in LoopIds :
        /\ loops[w].input_list = <<word_frobnicate>>
        /\ loops[w].unknown = <<word_frobnicate>>
        /\ loops[w].pc = "read"
        /\ loops[w].trace = <<>>
        /\ nread < MaxLines

\* C17: when a console line names the exit command and carries no help
\* flag, the exit command's handler is called and, once it has returned, the
\* loop has ended; a loop that has ended reads no further line and calls no
\* further handler; when the primary handler of any other command has
\* returned, the loop is reading the next line.
C17_ExitEndsLoop ==
    /\ [](\A w \in LoopIds :
            (/\ Dispatching(w)
             /\ loops[w].input_list[1] = word_exit
             /\ ~HelpAmong(loops[w].active_flags))
              => /\ loops[w].pc \in {"handler", "done"}
                 /\ Len(loops[w].trace) = 1
                 /\ loops[w].trace[1].kind = "primary"
                 /\ loops[w].trace[1].handler = _dummy)
    /\ [][\A w \in LoopIds :
            /\ (/\ loops[w].pc = "handler"
                /\ loops[w].running = "primary"
                /\ loops'[w] # loops[w]
                /\ loops'[w].signal = "none"
                /\ loops'[w].raised # HandlerError)
                 => /\ loops'[w].trace = loops[w].trace
                    /\ loops'[w].pc = IF loops[w].input_list[1] = word_exit
                                      THEN "done" ELSE "read"
            /\ loops[w].pc = "done" => loops'[w] = loops[w]]_vars

\* The loop has ended after the line 'exit', with lines left to read
C17_Witness ==
    \E w \in LoopIds :
        /\ loops[w].pc = "done"
        /\ loops[w].input_list = <<word_exit>>
        /\ Len(loops[w].trace) = 1
        /\ loops[w].trace[1].handler = _dummy
        /\ nread < MaxLines

\* C18: if the caller sets the cancellation signal while a console loop is
\* blocked reading a line, then when that read returns the loop ends without
\* executing the line just read: no handler is called for it and the loop
\* has ended.
C18_CancelObservedAfterRead ==
    [][\A w \in LoopIds :
          (/\ cancel_requested
           /\ loops[w].pc = "read"
           /\ nread' = nread + 1
           /\ loops'[w] # loops[w])
            => /\ loops'[w].pc = "done"
               /\ loops'[w].trace = <<>>]_vars

\* C19: console_start(threaded=True) returns to the caller at once, the
\* loop running on a background worker, and what it returns is a
\* cancellation handle the caller can set; console_start(threaded=False)
\* returns only after the console loop has ended.
C19_StartReturnsHandle ==
    /\ shutdown # <<"unbound">> => shutdown # None
    /\ \A w \in LoopIds :
          (~loops[w].is_thread /\ loops[w].pc \in {"read", "handler"}) =>
              caller = [pc |-> "blocked", loop |-> w]

\* C20: for one Console at most one context runs the console loop at any
\* time, and the handlers of two console lines never execute at the same
\* time.
C20_OneLoopAtATime ==
    /\ Cardinality({w \in LoopIds : loops[w].pc \in {"read", "handler"}}) <= 1
    /\ Cardinality({w \in LoopIds : loops[w].pc = "handler"}) <= 1

\* C21: when KeyboardInterrupt or SystemExit is raised during an iteration
\* of the console loop, while the loop reads a line or is inside a handler,
\* the cleanup hook is called exactly once and run ends by raising
\* SystemExit: no line is read and no handler is called by that step, and
\* the loop takes no step afterwards.
C21_InterruptEndsLoop ==
    /\ [][\A w \in LoopIds :
            (loops[w].signal = "none" /\ loops'[w].signal # "none")
              => /\ loops[w].pc \in {"read", "handler"}
                 /\ loops'[w].cleanups = loops[w].cleanups + 1
                 /\ loops'[w].pc = "raised"
                 /\ loops'[w].raised = SystemExit
                 /\ loops'[w].trace = loops[w].trace
                 /\ nread' = nread]_vars
    /\ [][\A w \in LoopIds :
            loops[w].signal # "none" => loops'[w] = loops[w]]_vars

\* on_jobs of the line 'build -j 4 extra' has raised SystemExit: the
\* cleanup hook was called once, run has raised SystemExit with a line
\* left to read
C21_Witness ==
    \E w \in LoopIds :
        /\ loops[w].signal = "SystemExit"
        /\ loops[w].pc = "raised"
        /\ loops[w].raised = SystemExit
        /\ loops[w].cleanups = 1
        /\ Len(loops[w].trace) = 1
        /\ loops[w].trace[1].handler = Callable("on_jobs")
        /\ nread < MaxLines

\* C22: the cleanup hook is called only when the console loop is ending: a
\* step that calls it never leaves the loop reading another line, and a
\* loop that has ended through the exit command has called it exactly once.
C22_CleanupOnlyAtTermination ==
    /\ [][\A w \in LoopIds :
            loops'[w].cleanups > loops[w].cleanups
              => loops'[w].pc \in {"done", "raised"}]_vars
    /\ [](\A w \in LoopIds : loops[w].pc = "done" => loops[w].cleanups = 1)

---------------------------------------------------------------------------
(* RegistrySpec: a constructed Console and the registration calls a host    *)
(* makes on it: terminal_add_flag, add_flag on the Command that              *)
(* console_add_command returned last, console_add_command and                *)
(* terminal_quickadd_flags, with well-formed and malformed arguments         *)

\* A value that is neither a string nor a callable nor None
IntValue == <<"int", "7">>

word_name == <<"n", "a", "m", "e">>
word_help == <<"h", "e", "l", "p">>
tok_name == <<"-", "-", "n", "a", "m", "e">>
tok_x_short == <<"-", "x">>
tok_marker == <<"-", "-">>

\* Arguments of an add_flag call
FlagArg(longf, shortf, description, input_kind, method) ==
    [longf |-> longf, shortf |-> shortf, description |-> description,
     input |-> input_kind, method |-> method]

FlagArgs ==
    {FlagArg(word_name, <<"x">>, <<"d">>, FLAG_INPUT_IGNORE, Callable("on_name")),
     FlagArg(tok_name, tok_x_short, <<"d">>, FLAG_INPUT_IGNORE, Callable("on_name")),
     FlagArg(word_name, None, None, FLAG_INPUT_INT, None),
     FlagArg(<<>>, None, <<>>, FLAG_INPUT_IGNORE, None),
     FlagArg(word_help, <<"h">>, <<"d">>, FLAG_INPUT_IGNORE, Callable("on_help")),
     FlagArg(word_name, <<"x", "y">>, <<"d">>, FLAG_INPUT_IGNORE, None),
     FlagArg(word_name, <<>>, <<"d">>, FLAG_INPUT_IGNORE, None),
     FlagArg(word_name, <<"x">>, <<"d">>, FLAG_INPUT_IGNORE, IntValue),
     FlagArg(word_name, <<"x">>, IntValue, FLAG_INPUT_IGNORE, None),
     FlagArg(IntValue, <<"x">>, <<"d">>, FLAG_INPUT_IGNORE, None),
     FlagArg(word_name, IntValue, <<"d">>, FLAG_INPUT_IGNORE, None)}

\* Arguments of a console_add_command call
CommandArg(name, method, description) ==
    [name |-> name, method |-> method, description |-> description]

CommandArgs ==
    {CommandArg(word_name, Callable("on_command"), <<"d">>),
     CommandArg(word_exit, Callable("on_command"), <<"d">>),
     CommandArg(IntValue, Callable("on_command"), <<"d">>),
     CommandArg(word_name, None, <<"d">>),
     CommandArg(word_name, IntValue, <<"d">>),
     CommandArg(word_name, Callable("on_command"), IntValue)}

\* Arguments of a terminal_quickadd_flags call: those of example.py:19, a
\* shortf_str shorter than the list, none at all, and one longer than the
\* list
QuickArg(longf_list, shortf_str) ==
    [longf_list |-> longf_list, shortf_str |-> shortf_str]

QuickArgs ==
    {QuickArg(<<<<"t", "e", "s", "t">>, <<"m", "o", "r", "e">>>>, <<"?", "m">>),
     QuickArg(<<<<"s", "=", "i", "n", "t">>, <<"r", "=", "f", "l", "o", "a", "t">>,
                <<"n", "=", "s", "t", "r">>>>, <<"s">>),
     QuickArg(<<<<"l", "=", "i", "n", "t">>, <<"-", "-", "k">>>>, None),
     QuickArg(<<<<"a">>, IntValue>>, <<"a", "?">>),
     QuickArg(<<<<"a">>>>, <<"a", "b">>)}

\* command_add_flag putting the new flag in front of the registry
command_add_flag_at_front(self, c, longf, shortf, description, input_kind, method) ==
    LET flags == self._available_commands[c].available_flags
        r == add_flag(flags, longf, shortf, description, input_kind, method)
    IN Outcome([self EXCEPT !._available_commands[c].available_flags =
                    IF r.raised = NoException
                    THEN <<r.available_flags[Len(r.available_flags)]>> \o flags
                    ELSE flags],
               r.raised, FALSE)

\* command.add_flag(...) on the Command at position c of the Console's
\* command list (the object console_add_command returned)
command_add_flag(self, c, longf, shortf, description, input_kind, method) ==
    LET r == add_flag(self._available_commands[c].available_flags, longf,
                      shortf, description, input_kind, method)
    IN Outcome([self EXCEPT !._available_commands[c].available_flags =
                                r.available_flags],
               r.raised, FALSE)

\* A registration call of the host with arguments args and outcome r
Registers(op, args, r) ==
    /\ phase = "ready" /\ ncalls < MaxHostCalls
    /\ SetSelf(r.self)
    /\ last_call' = [op |-> op, raised |-> r.raised, args |-> args]
    /\ ncalls' = ncalls + 1
    /\ UNCHANGED <<argv, phase, parser_vars, loop_vars>>

RegisterTerminalFlag ==
    \E a \in FlagArgs :
        Registers("terminal_add_flag", a,
                  terminal_add_flag(Self, a.longf, a.shortf, a.description,
                                    a.input, a.method))

RegisterCommandFlag ==
    \E a \in FlagArgs :
        Registers("add_flag", a,
                  command_add_flag(Self, Len(_available_commands), a.longf,
                                   a.shortf, a.description, a.input, a.method))

\* The usage text that the host passes to console_add_command
usage_text == <<"u">>

RegisterCommand ==
    \E a \in CommandArgs :
        Registers("console_add_command", a,
                  console_add_command(Self, a.name, a.method, a.description,
                                      usage_text))

RegisterQuickFlags ==
    \E a \in QuickArgs :
        Registers("terminal_quickadd_flags", a,
                  terminal_quickadd_flags(Self, a.longf_list, a.shortf_str))

RegistryNext ==
    \/ RegisterTerminalFlag
    \/ RegisterCommandFlag
    \/ RegisterCommand
    \/ RegisterQuickFlags

RegistrySpec == LoopInit /\ [][RegistryNext]_vars

---------------------------------------------------------------------------
(* Claims about registration, checked under RegistrySpec *)

\* The flag registries of the Console: the terminal Command's, then those
\* of the console commands
Registries ==
    <<terminal.available_flags>> \o
    [c \in 1..Len(_available_commands) |->
        _available_commands[c].available_flags]

\* The last call of the host was an add_flag call (on the terminal Command
\* or on a console command)
AddFlagCalled == last_call.op \in {"terminal_add_flag", "add_flag"}

\* C23: an add_flag call with an empty long name fails with a validation
\* error and leaves the registry as it was: no registry ever holds a flag
\* whose long name is only the marker '--'.
C23_EmptyLongNameRejected ==
    /\ (AddFlagCalled /\ last_call.args.longf = <<>>)
          => last_call.raised # NoException
    /\ \A r \in 1..Len(Registries) :
          \A k \in 1..Len(Registries[r]) :
              Registries[r][k].longf # tok_marker

\* s without its leading marker character '-', if it has one
Unmarked(s) == IF s # <<>> /\ s[1] = "-" THEN Tail(s) ELSE s

\* The arguments a of an add_flag call fail validation: a handler that is
\* given and not callable, a description or a name that is given and not a
\* string, a short name that is not one character after its marker
InvalidFlagArgs(a) ==
    \/ a.method # None /\ ~IsCallable(a.method)
    \/ a.description # None /\ ~IsStr(a.description)
    \/ ~IsStr(a.longf)
    \/ a.shortf # None /\ ~IsStr(a.shortf)
    \/ a.shortf # None /\ IsStr(a.shortf) /\ Len(Unmarked(a.shortf)) # 1

\* The arguments a of a console_add_command call fail validation: a
\* handler that is not callable, a description that is not a string
InvalidCommandArgs(a) ==
    ~IsCallable(a.method) \/ ~IsStr(a.description)

\* The sequence after is the sequence before with one entry appended
OneAppended(before, after) ==
    /\ Len(after) = Len(before) + 1
    /\ SubSeq(after, 1, Len(before)) = before

\* C24: an add_flag or console_add_command call whose arguments fail
\* validation raises to the caller; a call that raises leaves the terminal
\* registry, the command list and every command's registry as they were; a
\* call that returns appends exactly one entry at the end of the registry
\* it was made on and leaves every existing entry and every other registry
\* as they were.
C24_RegistrationFrame ==
    [][(/\ ncalls' = ncalls + 1
        /\ last_call'.op \in {"terminal_add_flag", "add_flag",
                               "console_add_command"})
        =>
        LET op == last_call'.op
            a == last_call'.args
            n == Len(_available_commands)
        IN
        /\ (op = "console_add_command" /\ InvalidCommandArgs(a))
              => last_call'.raised # NoException
        /\ (op # "console_add_command" /\ InvalidFlagArgs(a))
              => last_call'.raised # NoException
        /\ last_call'.raised # NoException
              => /\ terminal' = terminal
                 /\ _available_commands' = _available_commands
        /\ (last_call'.raised = NoException /\ op = "terminal_add_flag")
              => /\ OneAppended(terminal.available_flags,
                                terminal'.available_flags)
                 /\ terminal'.command_name = terminal.command_name
                 /\ _available_commands' = _available_commands
        /\ (last_call'.raised = NoException /\ op = "add_flag")
              => /\ OneAppended(_available_commands[n].available_flags,
                                _available_commands'[n].available_flags)
                 /\ Len(_available_commands') = n
                 /\ \A c \in 1..(n - 1) :
                       _available_commands'[c] = _available_commands[c]
                 /\ _available_commands'[n].command_name =
                       _available_commands[n].command_name
                 /\ terminal' = terminal
        /\ (last_call'.raised = NoException /\ op = "console_add_command")
              => /\ OneAppended(_available_commands, _available_commands')
                 /\ _available_commands'[n + 1].command_name = a.name
                 /\ terminal' = terminal]_vars

\* command.add_flag("name", "x", ...) was accepted and appended as the
\* fourth flag of the build command; then command.add_flag("name", "xy")
\* raised TypeError and the registry still ends with that flag
C24_Witness ==
    /\ last_call.op = "add_flag"
    /\ last_call.args.shortf = <<"x", "y">>
    /\ last_call.raised.type = "TypeError"
    /\ Len(_available_commands) = 4
    /\ Len(_available_commands[4].available_flags) = 4
    /\ _available_commands[4].available_flags[4].longf = tok_name
    /\ _available_commands[4].available_flags[4].shortf = tok_x_short

\* C25: in every reachable state every Command (the terminal Command, the
\* built-in exit and help commands and every command of the host) has the
\* built-in flag --help/-h, bound to the command's help handler, as the
\* first entry of its registry, and the tokens --help and -h resolve to
\* that entry, also after the host has registered a flag with the same
\* long or short name.
C25_BuiltInHelpFirst ==
    \A r \in 1..Len(Registries) :
        LET flags == Registries[r] IN
        /\ Len(flags) >= 1
        /\ flags[1].longf = arg_help
        /\ flags[1].shortf = arg_h
        /\ flags[1].input = FLAG_INPUT_IGNORE
        /\ flags[1].method = _command_help
        /\ FindFlag(flags, arg_help) = 1
        /\ FindFlag(flags, arg_h) = 1

\* The host has registered its own --help/-h flag on the terminal Command:
\* it is in the registry, and both tokens still resolve to the first entry
C25_Witness ==
    /\ last_call.op = "terminal_add_flag"
    /\ last_call.args.longf = word_help
    /\ last_call.raised = NoException
    /\ LET flags == terminal.available_flags IN
       /\ flags[Len(flags)].longf = arg_help
       /\ flags[Len(flags)].shortf = arg_h
       /\ flags[Len(flags)].method = Callable("on_help")
       /\ Len(flags) > 1
       /\ FindFlag(flags, arg_help) = 1
       /\ FindFlag(flags, arg_h) = 1

\* The registry the last add_flag call of the host was made on
LastRegistry ==
    IF last_call.op = "terminal_add_flag"
    THEN terminal.available_flags
    ELSE _available_commands[Len(_available_commands)].available_flags

\* Tokens near the names of the flag 'name' / 'x'
NameTokens ==
    {word_name, <<"x">>, tok_name, tok_x_short, <<"-", "n", "a", "m", "e">>,
     <<"-", "-", "x">>, <<"-", "-", "-", "-", "n", "a", "m", "e">>,
     <<"-", "-", "-", "x">>}

\* C27: a flag registered as 'name' with short 'x' or as '--name' with
\* short '-x' is stored with the names '--name' and '-x'; registering the
\* stored names again stores the same names; and of the tokens near these
\* names exactly '--name' and '-x' match the stored flag.
C27_NormalisationIdempotent ==
    (/\ AddFlagCalled
     /\ last_call.raised = NoException
     /\ last_call.args.longf \in {word_name, tok_name}
     /\ last_call.args.shortf \in {<<"x">>, tok_x_short})
      => LET f == LastRegistry[Len(LastRegistry)]
             again == add_flag(<<>>, f.longf, f.shortf, f.description,
                               f.input, f.method)
         IN /\ f.longf = tok_name
            /\ f.shortf = tok_x_short
            /\ again.raised = NoException
            /\ again.available_flags = <<f>>
            /\ \A t \in NameTokens :
                  (FindFlag(<<f>>, t) = 1) <=> t \in {tok_name, tok_x_short}

\* The host has registered the flag as 'name', 'x' and then as '--name',
\* '-x' on the same command: the two entries carry the same names
C27_Witness ==
    /\ last_call.op = "add_flag"
    /\ last_call.raised = NoException
    /\ last_call.args.longf = tok_name
    /\ last_call.args.shortf = tok_x_short
    /\ Len(LastRegistry) >= 3
    /\ LastRegistry[Len(LastRegistry)].longf = tok_name
    /\ LastRegistry[Len(LastRegistry)].shortf = tok_x_short
    /\ LastRegistry[Len(LastRegistry) - 1].longf = tok_name
    /\ LastRegistry[Len(LastRegistry) - 1].shortf = tok_x_short
    /\ FindFlag(LastRegistry, tok_x_short) = Len(LastRegistry) - 1

\* The positions of '=' in a list item
EqPositions(item) == {i \in 1..Len(item) : item[i] = "="}

FirstEq(item) == CHOOSE i \in EqPositions(item) : \A j \in EqPositions(item) : i <= j

\* The part of a list item before its '=' (all of it when it has none)
BeforeEq(item) ==
    IF EqPositions(item) = {} THEN item ELSE SubSeq(item, 1, FirstEq(item) - 1)

\* The input kind the part after '=' names: str, int or float, none when
\* the item has no '='
KindAsked(item) ==
    IF EqPositions(item) = {} THEN FLAG_INPUT_IGNORE
    ELSE LET option == SubSeq(item, FirstEq(item) + 1, Len(item)) IN
         IF option = <<"s", "t", "r">> THEN FLAG_INPUT_STR
         ELSE IF option = <<"i", "n", "t">> THEN FLAG_INPUT_INT
         ELSE IF option = <<"f", "l", "o", "a", "t">> THEN FLAG_INPUT_FLOAT
         ELSE FLAG_INPUT_IGNORE

\* The short name of item i: the character at the same index of shortf_str,
\* none when that character is '?' or shortf_str is shorter or not given
ShortAsked(shortf_str, i) ==
    IF shortf_str = None THEN None
    ELSE IF i > Len(shortf_str) THEN None
    ELSE IF shortf_str[i] = "?" THEN None
    ELSE <<shortf_str[i]>>

\* The terminal_add_flag calls, from item i on, that a
\* terminal_quickadd_flags call stands for, made in list order on self
RECURSIVE AddedInTurn(_, _, _, _)
AddedInTurn(self, longf_list, shortf_str, i) ==
    IF i > Len(longf_list) THEN self
    ELSE AddedInTurn(
            terminal_add_flag(self, BeforeEq(longf_list[i]),
                              ShortAsked(shortf_str, i), <<>>,
                              KindAsked(longf_list[i]), None).self,
            longf_list, shortf_str, i + 1)

\* C28: a terminal_quickadd_flags(longf_list, shortf_str) call that
\* returns has appended to the terminal registry, in list order, one flag
\* per list item: its long name is the part of the item before '=' (with
\* the marker), its input kind the one the part after '=' names (none when
\* absent), its short name the character at the same index of shortf_str
\* (none for '?' and beyond the end of shortf_str), its handler None; the
\* Console is then as after the same sequence of terminal_add_flag calls.
C28_QuickaddAsAddFlagCalls ==
    [][(/\ ncalls' = ncalls + 1
        /\ last_call'.op = "terminal_quickadd_flags"
        /\ last_call'.raised = NoException)
        =>
        LET a == last_call'.args
            old == terminal.available_flags
            new == terminal'.available_flags
        IN
        /\ Len(new) = Len(old) + Len(a.longf_list)
        /\ SubSeq(new, 1, Len(old)) = old
        /\ \A i \in 1..Len(a.longf_list) :
              LET f == new[Len(old) + i]
                  name == BeforeEq(a.longf_list[i])
              IN /\ f.longf = (IF Prefix(name, 2) = tok_marker THEN name
                               ELSE tok_marker \o name)
                 /\ f.input = KindAsked(a.longf_list[i])
                 /\ f.shortf = (IF ShortAsked(a.shortf_str, i) = None THEN None
                                ELSE <<"-">> \o ShortAsked(a.shortf_str, i))
                 /\ f.method = None
        /\ terminal' = AddedInTurn(Self, a.longf_list, a.shortf_str, 1).terminal
        /\ _available_commands' = _available_commands]_vars

\* terminal_quickadd_flags(["s=int", "r=float", "n=str"], "s") has
\* returned: --s/-s takes an int, --r a float, --n a str, the last two
\* without a short name
C28_Witness ==
    /\ last_call.op = "terminal_quickadd_flags"
    /\ last_call.raised = NoException
    /\ Len(last_call.args.longf_list) = 3
    /\ LET flags == terminal.available_flags
           n == Len(terminal.available_flags)
       IN /\ flags[n - 2].longf = <<"-", "-", "s">>
          /\ flags[n - 2].shortf = <<"-", "s">>
          /\ flags[n - 2].input = FLAG_INPUT_INT
          /\ flags[n - 1].longf = <<"-", "-", "r">>
          /\ flags[n - 1].shortf = None
          /\ flags[n - 1].input = FLAG_INPUT_FLOAT
          /\ flags[n].longf = tok_n
          /\ flags[n].shortf = None
          /\ flags[n].input = FLAG_INPUT_STR
          /\ flags[n].method = None

\* C35: the Command that a console_add_command call has appended holds the
\* name, the primary handler, the description and the usage text that were
\* passed to the call.
C35_UsageStored ==
    (last_call.op = "console_add_command" /\ last_call.raised = NoException)
        => LET c == _available_commands[Len(_available_commands)]
           IN /\ c.command_name = last_call.args.name
              /\ c.method = last_call.args.method
              /\ c.description = last_call.args.description
              /\ c.usage = usage_text

\* C30: in every reachable state, within each Command's flag registry every
\* long name has at least one character after its marker '--', no two
\* flags share a long name, and every short name that is present is the
\* marker '-' followed by exactly one character.
C30_RegistryWellFormed ==
    \A r \in 1..Len(Registries) :
        LET flags == Registries[r] IN
        /\ \A k \in 1..Len(flags) :
              /\ Prefix(flags[k].longf, 2) = tok_marker
              /\ Len(flags[k].longf) > 2
              /\ flags[k].shortf # None
                    => /\ Len(flags[k].shortf) = 2
                       /\ flags[k].shortf[1] = "-"
        /\ \A j, k \in 1..Len(flags) :
              flags[j].longf = flags[k].longf => j = k

---------------------------------------------------------------------------
(* Claims about malformed lines, checked under LoopSpec *)

C29_NoHandlerAfterInputError ==
    /\ (last_call.op = "Console" /\ last_call.raised.type = "InputError")
          => /\ calls = <<>>
             /\ phase = "failed"
    /\ (phase = "failed" /\ Len(argv) > 1) => last_call.raised.type = "InputError"
    /\ \A w \in LoopIds :
          loops[w].raised.type = "InputError"
            => /\ loops[w].trace = <<>>
               /\ loops[w].pc = "raised"
    /\ \A w \in LoopIds :
          (/\ loops[w].pc # "read"
           /\ loops[w].input_list = <<word_build, tok_q, tok_j>>)
            => loops[w].raised.type = "InputError"

\* The console line 'build -q -j' has raised InputError: the parser had
\* recorded --quiet, whose handler on_quiet was not invoked
C29_Witness ==
    \E w \in LoopIds :
        /\ loops[w].input_list = <<word_build, tok_q, tok_j>>
        /\ loops[w].raised.type = "InputError"
        /\ Len(loops[w].active_flags) = 1
        /\ loops[w].active_flags[1].method = Callable("on_quiet")
        /\ loops[w].trace = <<>>
        /\ nread < MaxLines

----------------------------------------------------------------------------
(* SharedSpec: the console loops and a caller that registers a command
   while a loop runs in its thread *)

SharedNext ==
    \/ LoopNext
    \/ CallerAddsCommand

SharedSpec == LoopInit /\ [][SharedNext]_vars

\* C34: once a console loop has started, the command registry is read-only:
\* no step changes the registry, and so no step changes the command that
\* the loop finds for the name 'frobnicate'.
C34_RegistriesReadOnlyInLoop ==
    [][(\E w \in LoopIds : loops[w].pc # "unstarted")
          => /\ _available_commands' = _available_commands
             /\ FindCommand(_available_commands', word_frobnicate)
                  = FindCommand(_available_commands, word_frobnicate)]_vars

====
